---- MODULE Spec2Model ----
(***************************************************************************)
(* TileBank: the transactional catalog repository (DuckDB rows) and the    *)
(* array files it writes next to them.                                     *)
(*                                                                         *)
(* Spec      models src/repository/core/{base,tile_bank}.py                *)
(* SpecRoot  models src/tile_bank_repository.py (the earlier, flat layout) *)
(***************************************************************************)
EXTENDS Integers, Sequences, FiniteSets, TLC

(***************************************************************************)
(* Bounds of the model                                                     *)
(***************************************************************************)
\* number of uuid4() file names that can be drawn in one behaviour
MaxUuid == 2
\* number of values that can be drawn from seq_tile_id / seq_mask_id
MaxSeq == 3

(***************************************************************************)
(* Python values used as inputs                                            *)
(***************************************************************************)
Digits == <<"0", "1", "2", "3", "4", "5", "6", "7", "8", "9">>

IsDigit(c) == \E k \in 1..10 : Digits[k] = c

DigitVal(c) == (CHOOSE k \in 1..10 : Digits[k] = c) - 1

\* a str value, as its sequence of characters
PyStr(chars) == [type |-> "str", s |-> chars, ymd |-> <<0, 0, 0>>]

\* a datetime.datetime value (the time of day plays no role)
PyDatetime(y, m, d) == [type |-> "datetime", s |-> <<>>, ymd |-> <<y, m, d>>]

\* None
PyNone == [type |-> "NoneType", s |-> <<>>, ymd |-> <<0, 0, 0>>]

\* "2024-12-12"
Date_2024_12_12 == PyStr(<<"2", "0", "2", "4", "-", "1", "2", "-", "1", "2">>)
\* "03-15-2024" : not YYYY-MM-DD
Date_03_15_2024 == PyStr(<<"0", "3", "-", "1", "5", "-", "2", "0", "2", "4">>)
\* "2024-13-45" : has the form YYYY-MM-DD but is no calendar date
Date_2024_13_45 == PyStr(<<"2", "0", "2", "4", "-", "1", "3", "-", "4", "5">>)

DateInputs == {Date_2024_12_12, Date_03_15_2024, Date_2024_13_45}

\* satellite rows inserted by seed_data, name -> id
SeededSatellites ==
    {<<"Sentinel-2", 1>>, <<"Sentinel-1", 2>>, <<"Pleiades-50", 3>>,
     <<"PleiadesNEO", 4>>, <<"ortophoto25", 5>>}

SatelliteInputs == {"Sentinel-2", "NoSuchSat"}

\* the mask_task_type enum
MaskTaskType == {"ntp", "field_delineation", "perm_structures"}

TaskInputs == {"ntp", "land_cover"}

FormatInputs == {"npy", "gif"}

\* array shapes: (3,2,2) is a valid tile, (2,3,2,2) is 4-D, (3,2,1) is not
\* square
ShapeInputs == {<<3, 2, 2>>, <<2, 3, 2, 2>>, <<3, 2, 1>>}

\* number of bands of the rasters that are swept
Bands == 3

\* rasters that are swept, as (height, width), with patch sizes and strides
RasterInputs == {<<2, 4>>, <<1, 2>>}
PatchSizeInputs == {2}
StrideInputs == {2}

\* files named by uuid4() inside save_dir
GenPath(n) == <<"gen", n>>
\* raster files supplied by the caller
SrcPath(n) == <<"src", n>>

\* source rasters that exist on disk / that the caller may name
ExistingSources == {SrcPath(1)}
SourceInputs == {SrcPath(1), SrcPath(2)}

NoPath == <<"none", 0>>

\* default_crs, and another CRS a raster may have
DefaultCrs == "EPSG:4326"
OtherCrs == "EPSG:3857"
CrsInputs == {DefaultCrs, OtherCrs}

\* numbers with the CRS they are coordinates of
Bounds(crs, rect) == [crs |-> crs, rect |-> rect]

\* no bounds
NoBounds == Bounds("", <<>>)

\* shapely.geometry.box(minx, miny, maxx, maxy): the exterior ring
shapely_box(rect) ==
    <<<<rect[3], rect[2]>>, <<rect[3], rect[4]>>, <<rect[1], rect[4]>>,
      <<rect[1], rect[2]>>, <<rect[3], rect[2]>>>>

\* the rectangle <<min_x, min_y, max_x, max_y>> of the polygon with the
\* exterior ring given, as the engine keeps it in a GEOMETRY column
ST_Envelope(ring) ==
    LET xs == {ring[k][1] : k \in DOMAIN ring}
        ys == {ring[k][2] : k \in DOMAIN ring}
    IN  <<CHOOSE x \in xs : \A o \in xs : x <= o,
          CHOOSE y \in ys : \A o \in ys : y <= o,
          CHOOSE x \in xs : \A o \in xs : x >= o,
          CHOOSE y \in ys : \A o \in ys : y >= o>>

\* src.crs and src.bounds of the raster file at path, as rasterio.open
\* gives them
rasterio_open(path) ==
    IF path[1] = "src" THEN Bounds(DefaultCrs, <<0, 0, 10 * path[2], 10>>)
    ELSE NoBounds

\* get_raster_spatial_info(raster_path): the columns crs and bounds
\* (box(*src.bounds).wkt, kept by the engine as a polygon)
get_raster_spatial_info(raster_path) ==
    IF rasterio_open(raster_path) = NoBounds THEN NoBounds
    ELSE Bounds(rasterio_open(raster_path).crs,
                ST_Envelope(shapely_box(rasterio_open(raster_path).rect)))

(***************************************************************************)
(* State                                                                   *)
(***************************************************************************)
VARIABLES
    tile,            \* rows of table tile as seen by the connection
    tile_committed,  \* rows of table tile as of the last COMMIT
    mask,            \* rows of table mask as seen by the connection
    mask_committed,  \* rows of table mask as of the last COMMIT
    timeseries,      \* rows of table timeseries as seen by the connection
    timeseries_committed,
    timeseries_tile_link,  \* rows of table timeseries_tile_link, in the
                           \* order of their insertion
    timeseries_tile_link_committed,
    multimodal,      \* rows of table multimodal
    files,           \* paths that exist on disk
    created_files,   \* TileBankRepository._created_files
    in_transaction,  \* BaseRepository._in_transaction
    db_transaction,  \* a transaction is open on BaseRepository.conn
    uuid,            \* index of the next uuid4() file name
    seq_tile_id,     \* next value of seq_tile_id
    seq_mask_id,     \* next value of seq_mask_id
    seq_timeseries_id,  \* next value of seq_timeseries_id
    last             \* the last call: its arguments, what it raised/returned

vars == <<tile, tile_committed, mask, mask_committed, timeseries,
          timeseries_committed, timeseries_tile_link,
          timeseries_tile_link_committed, multimodal, files, created_files,
          in_transaction, db_transaction, uuid, seq_tile_id, seq_mask_id,
          seq_timeseries_id, last>>

\* the repository and the two stores as one value
Cur ==
    [tile |-> tile, tile_committed |-> tile_committed,
     mask |-> mask, mask_committed |-> mask_committed,
     timeseries |-> timeseries,
     timeseries_committed |-> timeseries_committed,
     timeseries_tile_link |-> timeseries_tile_link,
     timeseries_tile_link_committed |-> timeseries_tile_link_committed,
     files |-> files, created_files |-> created_files,
     in_transaction |-> in_transaction, db_transaction |-> db_transaction,
     uuid |-> uuid,
     seq_tile_id |-> seq_tile_id, seq_mask_id |-> seq_mask_id,
     seq_timeseries_id |-> seq_timeseries_id]

\* arguments of a call, in one shape for every operation; again: a tile
\* made from the same source raster is in the catalog when the call starts
NoArgs ==
    [shape |-> <<>>, sat |-> "", date |-> PyNone, fmt |-> "", path |-> NoPath,
     exists_ok |-> FALSE, again |-> FALSE, query |-> "", offsets |-> <<>>,
     patch_size |-> 0, accept |-> {}, task |-> "", db_fail |-> {},
     locked |-> {}, paths |-> <<>>, dates |-> <<>>, src |-> <<>>,
     mask_src |-> <<>>, transform |-> <<>>, table |-> "", criteria |-> <<>>,
     id |-> 0, timeseries_data |-> <<>>]

\* result of a call: the state it leaves, the exception it raised ("none" if
\* it returned), the tile and mask records it returned, the files it wrote,
\* whether an INSERT raised, whether the INSERT was refused as a duplicate
\* path, the tile records whose mask INSERT raised, and the files whose
\* os.remove failed
Result(s, exc, ret) ==
    [s |-> s, exc |-> exc, ret |-> ret, masks |-> <<>>, wrote |-> {},
     insert_failed |-> FALSE, dup |-> FALSE, mask_failed |-> {},
     stuck |-> {}]

Raise(s, exc) == Result(s, exc, <<>>)

Return(s, ret) == Result(s, "none", ret)

(***************************************************************************)
(* Dates                                                                   *)
(***************************************************************************)
\* two decimal digits of n
TwoDigits(n) == <<Digits[((n \div 10) % 10) + 1], Digits[(n % 10) + 1]>>

\* datetime.strftime("%Y-%m-%d")
strftime(ymd) ==
    <<Digits[((ymd[1] \div 1000) % 10) + 1],
      Digits[((ymd[1] \div 100) % 10) + 1]>>
    \o TwoDigits(ymd[1]) \o <<"-">> \o TwoDigits(ymd[2]) \o <<"-">>
    \o TwoDigits(ymd[3])

\* the first ten characters have the form dddd-dd-dd
HasDateShape(s) ==
    /\ Len(s) >= 10
    /\ \A k \in {1, 2, 3, 4, 6, 7, 9, 10} : IsDigit(s[k])
    /\ s[5] = "-"
    /\ s[8] = "-"

\* re.match(r'^\d{4}-\d{2}-\d{2}$', s): $ also matches before a final newline
re_match_date(s) ==
    /\ HasDateShape(s)
    /\ \/ Len(s) = 10
       \/ Len(s) = 11 /\ s[11] = "\n"

\* TileBankRepository.parse_date_origin: [exc, val]
parse_date_origin(date_origin) ==
    IF date_origin.type = "datetime"
    THEN [exc |-> "none", val |-> PyStr(strftime(date_origin.ymd))]
    ELSE IF date_origin.type = "str"
    THEN IF ~re_match_date(date_origin.s)
         THEN [exc |-> "ValueError", val |-> PyNone]
         ELSE [exc |-> "none", val |-> date_origin]
    ELSE [exc |-> "none", val |-> PyNone]

IsLeap(y) == ((y % 4) = 0 /\ (y % 100) # 0) \/ (y % 400) = 0

DaysInMonth(y, m) ==
    IF m = 2 THEN (IF IsLeap(y) THEN 29 ELSE 28)
    ELSE IF m \in {4, 6, 9, 11} THEN 30 ELSE 31

\* the cast of a quoted SQL string to the DATE column date_origin succeeds
IsCalendarDate(s) ==
    /\ HasDateShape(s)
    /\ LET y == 1000 * DigitVal(s[1]) + 100 * DigitVal(s[2])
                + 10 * DigitVal(s[3]) + DigitVal(s[4])
           m == 10 * DigitVal(s[6]) + DigitVal(s[7])
           d == 10 * DigitVal(s[9]) + DigitVal(s[10])
       IN  /\ m \in 1..12
           /\ d \in 1..DaysInMonth(y, m)

(***************************************************************************)
(* BaseRepository (src/repository/core/base.py)                            *)
(***************************************************************************)
Tables == {"satellite", "timeseries", "tile", "timeseries_tile_link",
           "tagtype", "tag", "tile_tag_link", "mask", "multimodal"}

\* BaseRepository.find("satellite", name=...): [exc, id]
find_satellite(name) ==
    LET found == {r \in SeededSatellites : r[1] = name}
    IN  IF found = {} THEN [exc |-> "ValueError", id |-> 0]
        ELSE IF Cardinality(found) > 1 THEN [exc |-> "ValueError", id |-> 0]
        ELSE [exc |-> "none", id |-> (CHOOSE r \in found : TRUE)[2]]

\* transactional, before the call: BEGIN TRANSACTION unless _in_transaction
\* (the statement raises when the connection has a transaction open; then
\* _in_transaction is not set)
begin_transaction(s) ==
    IF ~s.in_transaction /\ ~s.db_transaction
    THEN [s EXCEPT !.in_transaction = TRUE, !.db_transaction = TRUE]
    ELSE s

\* BaseRepository.save_changes: COMMIT (raises when no transaction is open)
save_changes(s) ==
    IF s.db_transaction
    THEN [s EXCEPT !.tile_committed = s.tile, !.mask_committed = s.mask,
                   !.timeseries_committed = s.timeseries,
                   !.timeseries_tile_link_committed = s.timeseries_tile_link,
                   !.in_transaction = FALSE, !.db_transaction = FALSE]
    ELSE s

\* BaseRepository.abort_changes: ABORT (raises when no transaction is open)
base_abort_changes(s) ==
    IF s.db_transaction
    THEN [s EXCEPT !.tile = s.tile_committed, !.mask = s.mask_committed,
                   !.timeseries = s.timeseries_committed,
                   !.timeseries_tile_link = s.timeseries_tile_link_committed,
                   !.in_transaction = FALSE, !.db_transaction = FALSE]
    ELSE s

\* BaseRepository.sql(query) for a transaction statement: the statement goes
\* to the connection, _in_transaction is not touched
sql(s, query) ==
    IF query = "BEGIN TRANSACTION;"
    THEN IF s.db_transaction THEN Raise(s, "TransactionException")
         ELSE Return([s EXCEPT !.db_transaction = TRUE], <<>>)
    ELSE IF ~s.db_transaction THEN Raise(s, "TransactionException")
    ELSE IF query = "COMMIT;"
    THEN Return([s EXCEPT !.tile_committed = s.tile,
                          !.mask_committed = s.mask,
                          !.timeseries_committed = s.timeseries,
                          !.timeseries_tile_link_committed =
                              s.timeseries_tile_link,
                          !.db_transaction = FALSE], <<>>)
    ELSE Return([s EXCEPT !.tile = s.tile_committed,
                          !.mask = s.mask_committed,
                          !.timeseries = s.timeseries_committed,
                          !.timeseries_tile_link =
                              s.timeseries_tile_link_committed,
                          !.db_transaction = FALSE], <<>>)

\* TileBankRepository._track_file
track_file(s, filepath) ==
    [s EXCEPT !.created_files = @ \cup {filepath}]

\* TileBankRepository._cleanup_files: os.remove of every tracked file that
\* exists; a failing os.remove (filepath \in locked) is printed and skipped
\* (first: the loop without its try, which the first failure ends)
cleanup_files_until_failure(s, locked) ==
    IF s.created_files \cap s.files \cap locked = {}
    THEN [s EXCEPT !.files = @ \ s.created_files, !.created_files = {}]
    ELSE [s EXCEPT !.created_files = {}]
cleanup_files(s, locked) ==
    [s EXCEPT !.files = @ \ (s.created_files \ locked),
              !.created_files = {}]

\* abort_changes as inherited, without the override that cleans up files
abort_changes_not_overridden(s, locked) ==
    base_abort_changes(s)

\* TileBankRepository.abort_changes
abort_changes(s, locked) ==
    base_abort_changes(cleanup_files(s, locked))

\* the error of INSERT INTO table ... VALUES (data), "none" if it succeeds;
\* db_err: the engine fails on this statement for a reason of its own
insert_error(s, table, data, db_err) ==
    IF table \notin Tables THEN "ValueError"
    ELSE IF data.bounds = "Series" THEN "ParserException"
    ELSE IF data.date_origin.type = "NoneType" THEN "BinderException"
    ELSE IF ~IsCalendarDate(data.date_origin.s) THEN "ConversionException"
    ELSE IF table = "mask" /\ data.task \notin MaskTaskType
    THEN "ConversionException"
    ELSE IF table = "tile" /\ \E r \in s.tile : r.path = data.path
    THEN "ConstraintException"
    ELSE IF table = "mask" /\ \E r \in s.mask : r.path = data.path
    THEN "ConstraintException"
    ELSE IF table = "mask" /\ ~\E r \in s.tile : r.id = data.tile_id
    THEN "ConstraintException"
    ELSE IF db_err THEN "IOException"
    ELSE "none"

\* the row INSERT ... RETURNING * yields; source is not a column: it names
\* the raster the caller gave for the row (NoPath for an array)
new_row(s, table, data) ==
    [id |-> IF table = "mask" THEN s.seq_mask_id ELSE s.seq_tile_id,
     path |-> data.path, satellite_id |-> data.satellite_id,
     tile_id |-> data.tile_id, task |-> data.task,
     date_origin |-> data.date_origin.s, source |-> data.source,
     bounds |-> data.geom]

\* transactional(check_table(BaseRepository.add_record))
add_record(s, table, data, db_err, locked) ==
    LET s1 == begin_transaction(s)
        err == insert_error(s1, table, data, db_err)
        row == new_row(s1, table, data)
        \* outside a transaction the connection commits each statement
        auto == IF s1.db_transaction THEN {} ELSE {row}
    IN  IF ~s.in_transaction /\ s.db_transaction
        THEN Raise(s, "TransactionException")
        ELSE IF err # "none"
        THEN [Raise(abort_changes(s1, locked),
                    IF s1.db_transaction THEN err
                    ELSE "TransactionException") EXCEPT
                 !.insert_failed = TRUE,
                 !.dup = (err = "ConstraintException"),
                 !.stuck = s1.created_files \cap s1.files \cap locked]
        ELSE IF table = "mask"
        THEN Return([s1 EXCEPT !.mask = @ \cup {row},
                               !.mask_committed = @ \cup auto,
                               !.seq_mask_id = @ + 1], <<row>>)
        ELSE Return([s1 EXCEPT !.tile = @ \cup {row},
                               !.tile_committed = @ \cup auto,
                               !.seq_tile_id = @ + 1], <<row>>)

\* the dict passed to add_record("tile", ...)
TileData(path, satellite_id, date_origin, source) ==
    [path |-> path, satellite_id |-> satellite_id, tile_id |-> 0,
     task |-> "", date_origin |-> date_origin, bounds |-> "str",
     source |-> source, geom |-> get_raster_spatial_info(source)]

\* the dict passed to add_record("mask", ...)
MaskData(task, path, tile_id, date_origin, bounds) ==
    [path |-> path, satellite_id |-> 0, tile_id |-> tile_id,
     task |-> task, date_origin |-> date_origin, bounds |-> bounds,
     source |-> NoPath, geom |-> NoBounds]

(***************************************************************************)
(* save_array (src/repository/io/array_writer.py)                          *)
(***************************************************************************)
\* [s, exc]: writes output_path for .npy and for .tif with a transform
\* (first: the array is written with np.save whatever the extension)
save_array_any_extension(s, output_path, ext, has_transform) ==
    [s |-> [s EXCEPT !.files = @ \cup {output_path}], exc |-> "none"]

save_array(s, output_path, ext, has_transform) ==
    IF ext = "npy"
    THEN [s |-> [s EXCEPT !.files = @ \cup {output_path}], exc |-> "none"]
    ELSE IF ext = "tif"
    THEN IF ~has_transform
         THEN [s |-> s, exc |-> "ValueError"]
         ELSE [s |-> [s EXCEPT !.files = @ \cup {output_path}],
               exc |-> "none"]
    ELSE [s |-> s, exc |-> "ValueError"]

(***************************************************************************)
(* TileBankRepository (src/repository/core/tile_bank.py)                   *)
(***************************************************************************)
\* os.path.join(save_dir, f"{uuid.uuid4()}.{ext}")
new_path(s) == GenPath(s.uuid)

\* the shape assertions with the squareness assertion left out
is_square_3d_any_last_axes(array) ==
    Len(array) = 3

\* the two shape assertions of add_single_tile_from_array
is_square_3d(array) ==
    /\ Len(array) = 3
    /\ array[3] = array[2]

\* add_single_tile_from_array(array, satellite_name, date_origin, crs,
\* transform, exists_ok, file_format); array is given by its shape
add_single_tile_from_array(s, array, satellite_name, date_origin, file_format, db_err, locked) ==
    IF ~is_square_3d(array) THEN Raise(s, "AssertionError")
    ELSE IF file_format \notin {"npy", "tif"} THEN Raise(s, "AssertionError")
    ELSE
    LET file_path == new_path(s)
        saved == save_array([s EXCEPT !.uuid = @ + 1], file_path,
                            file_format, file_format = "tif")
        s1 == track_file(saved.s, file_path)
        satellite == find_satellite(satellite_name)
        date == parse_date_origin(date_origin)
    IN  IF saved.exc # "none" THEN Raise(saved.s, saved.exc)
        ELSE IF satellite.exc # "none"
        THEN [Raise(s1, satellite.exc) EXCEPT !.wrote = {file_path}]
        ELSE IF date.exc # "none"
        THEN [Raise(s1, date.exc) EXCEPT !.wrote = {file_path}]
        ELSE [add_record(s1, "tile",
                         TileData(file_path, satellite.id, date.val, NoPath),
                         db_err, locked)
                 EXCEPT !.wrote = {file_path}]

\* add_single_tile_from_path(path, satellite_name, date_origin, exists_ok)
\* (first: the row is inserted without a look at the file)
add_single_tile_from_path_unverified(s, path, satellite_name, date_origin, exists_ok, db_err, locked) ==
    add_record(s, "tile",
               TileData(path, find_satellite("Sentinel-2").id, Date_2024_12_12,
                        path),
               db_err, locked)

add_single_tile_from_path(s, path, satellite_name, date_origin, exists_ok, db_err, locked) ==
    LET satellite == find_satellite(satellite_name)
        date == parse_date_origin(date_origin)
    IN  IF satellite.exc # "none" THEN Raise(s, satellite.exc)
        ELSE IF date.exc # "none" THEN Raise(s, date.exc)
        ELSE IF path \notin s.files THEN Raise(s, "ValueError")
        ELSE
        LET r == add_record(s, "tile",
                            TileData(path, satellite.id, date.val, path),
                            db_err, locked)
        IN  IF r.exc = "ConstraintException"
            THEN IF ~exists_ok
                 THEN [r EXCEPT !.exc = "ValueError: already exists"]
                 \* return tile: the name was never bound
                 ELSE [r EXCEPT !.exc = "UnboundLocalError"]
            ELSE r

Range(seq) == {seq[k] : k \in DOMAIN seq}

\* range(0, stop, step) for step >= 1
PyRange(stop, step) ==
    [k \in 1..(IF stop <= 0 THEN 0 ELSE ((stop - 1) \div step) + 1)
        |-> (k - 1) * step]

\* a // b for b >= 1 (floor division)
FloorDiv(a, b) == IF a >= 0 THEN a \div b ELSE -(((-a) + b - 1) \div b)

\* the offsets (i, j) of the sweep, in the order the two loops visit them
RECURSIVE CrossRows(_, _)
CrossRows(rows, cols) ==
    IF rows = <<>> THEN <<>>
    ELSE [k \in 1..Len(cols) |-> <<Head(rows), cols[k]>>]
         \o CrossRows(Tail(rows), cols)

\* the sweep goes on while a window starts inside the raster
patch_offsets_to_the_edge(height, width, patch_size, stride) ==
    LET max_height == (FloorDiv(height - 1, stride) + 1) * stride
        max_width == (FloorDiv(width - 1, stride) + 1) * stride
    IN  CrossRows(PyRange(max_height, stride), PyRange(max_width, stride))

patch_offsets(height, width, patch_size, stride) ==
    LET max_height == (FloorDiv(height - patch_size, stride) + 1) * stride
        max_width == (FloorDiv(width - patch_size, stride) + 1) * stride
    IN  CrossRows(PyRange(max_height, stride), PyRange(max_width, stride))

\* the body of the two loops of save_raster_patches over the offsets left;
\* acc is the result so far (created_tiles in acc.ret)
RECURSIVE sweep_patches(_, _, _, _, _, _, _, _, _)
sweep_patches(acc, offsets, patch_size, accept, satellite_name, date_origin, file_format, db_fail, locked) ==
    IF offsets = <<>> THEN acc
    ELSE
    LET o == Head(offsets)
        r == add_single_tile_from_array(acc.s, <<Bands, patch_size, patch_size>>,
                                        satellite_name,
                                        date_origin, file_format,
                                        o \in db_fail, locked)
        next == IF o \notin accept THEN acc
                ELSE IF r.exc # "none"
                THEN [acc EXCEPT !.s = r.s, !.wrote = @ \cup r.wrote,
                                 !.stuck = @ \cup r.stuck]
                ELSE [acc EXCEPT !.s = r.s, !.wrote = @ \cup r.wrote,
                                 !.ret = @ \o r.ret]
    IN  sweep_patches(next, Tail(offsets), patch_size, accept,
                      satellite_name, date_origin, file_format, db_fail,
                      locked)

\* save_raster_patches(raster_path, satellite_name, date_origin, patch_size,
\* validator, stride, file_format); offsets is the grid of the raster,
\* accept the offsets whose patch the validator accepts
\* the validator is not asked
save_raster_patches_without_validator(s, offsets, patch_size, accept, satellite_name, date_origin, file_format, db_fail, locked) ==
    IF file_format \notin {"npy", "tif"} THEN Raise(s, "AssertionError")
    ELSE sweep_patches(Return(s, <<>>), offsets, patch_size, Range(offsets),
                       satellite_name, date_origin, file_format, db_fail,
                       locked)

save_raster_patches(s, offsets, patch_size, accept, satellite_name, date_origin, file_format, db_fail, locked) ==
    IF file_format \notin {"npy", "tif"} THEN Raise(s, "AssertionError")
    ELSE sweep_patches(Return(s, <<>>), offsets, patch_size, accept,
                       satellite_name, date_origin, file_format, db_fail,
                       locked)

\* the body of the two loops of save_raster_patches_with_masks
RECURSIVE sweep_patches_with_masks(_, _, _, _, _, _, _, _, _, _)
sweep_patches_with_masks(acc, offsets, patch_size, accept, satellite_name, date_origin, task, file_format, db_fail, locked) ==
    IF offsets = <<>> THEN acc
    ELSE
    LET o == Head(offsets)
        r == add_single_tile_from_array(acc.s, <<Bands, patch_size, patch_size>>,
                                        satellite_name,
                                        date_origin, file_format,
                                        o \in db_fail, locked)
        tile_record == r.ret[1]
        mask_path == new_path(r.s)
        saved == save_array([r.s EXCEPT !.uuid = @ + 1], mask_path,
                            file_format, file_format = "tif")
        date == parse_date_origin(date_origin)
        \* "bounds": tile_record['bounds'] is a pandas Series, not a str
        m == add_record(saved.s, "mask",
                        MaskData(task, mask_path, tile_record.id, date.val,
                                 "Series"),
                        FALSE, locked)
        next ==
            IF o \notin accept THEN acc
            ELSE IF r.exc # "none"
            THEN [acc EXCEPT !.s = r.s, !.wrote = @ \cup r.wrote,
                             !.stuck = @ \cup r.stuck]
            ELSE IF saved.exc # "none"
            THEN [acc EXCEPT !.s = saved.s, !.wrote = @ \cup r.wrote,
                             !.ret = @ \o r.ret]
            ELSE IF date.exc # "none"
            THEN [acc EXCEPT !.s = saved.s,
                             !.wrote = @ \cup r.wrote \cup {mask_path},
                             !.ret = @ \o r.ret]
            ELSE IF m.exc # "none"
            THEN [acc EXCEPT !.s = m.s,
                             !.wrote = @ \cup r.wrote \cup {mask_path},
                             !.ret = @ \o r.ret,
                             !.mask_failed = @ \cup {tile_record},
                             !.stuck = @ \cup m.stuck]
            ELSE [acc EXCEPT !.s = m.s,
                             !.wrote = @ \cup r.wrote \cup {mask_path},
                             !.ret = @ \o r.ret,
                             !.masks = @ \o m.ret]
    IN  sweep_patches_with_masks(next, Tail(offsets), patch_size, accept,
                                 satellite_name, date_origin, task,
                                 file_format, db_fail, locked)

\* save_raster_patches_with_masks(raster_path, mask_path, satellite_name,
\* date_origin, patch_size, task, mask_type, validator, stride, file_format)
\* for a raster and a mask of equal dimensions and CRS
save_raster_patches_with_masks(s, offsets, patch_size, accept, satellite_name, date_origin, task, file_format, db_fail, locked) ==
    IF file_format \notin {"npy", "tif"} THEN Raise(s, "AssertionError")
    ELSE sweep_patches_with_masks(Return(s, <<>>), offsets, patch_size,
                                  accept, satellite_name, date_origin, task,
                                  file_format, db_fail, locked)

(***************************************************************************)
(* The repository as a state machine: one action per public operation      *)
(***************************************************************************)
AllGenPaths == {GenPath(n) : n \in 1..MaxUuid}

\* a new repository on a seeded database, with the rasters sources on disk
NewRepository(sources) ==
    /\ tile = {}
    /\ tile_committed = {}
    /\ mask = {}
    /\ mask_committed = {}
    /\ timeseries = {}
    /\ timeseries_committed = {}
    /\ timeseries_tile_link = <<>>
    /\ timeseries_tile_link_committed = <<>>
    /\ multimodal = {}
    /\ files = sources
    /\ created_files = {}
    /\ in_transaction = FALSE
    /\ db_transaction = FALSE
    /\ uuid = 1
    /\ seq_tile_id = 1
    /\ seq_mask_id = 1
    /\ seq_timeseries_id = 1

IdleRepository == NewRepository(ExistingSources)

Init ==
    /\ IdleRepository
    /\ last = [op |-> "init", args |-> NoArgs, exc |-> "none", ret |-> <<>>,
               masks |-> <<>>, wrote |-> {}, insert_failed |-> FALSE,
               dup |-> FALSE, mask_failed |-> {}, stuck |-> {}]

\* the call stays within the uuid4 names and sequence values of the model
Bounded(r) ==
    /\ r.s.uuid <= MaxUuid + 1
    /\ r.s.seq_tile_id <= MaxSeq + 1
    /\ r.s.seq_mask_id <= MaxSeq + 1
    /\ r.s.seq_timeseries_id <= MaxSeq + 1

\* os.remove fails for no file, or for the first file of save_dir (a choice
\* that matters only if that file is tracked or is about to be written)
LockedInputs ==
    IF GenPath(1) \in created_files \/ uuid = 1
    THEN {{}, {GenPath(1)}}
    ELSE {{}}

\* the call op(args) ran and gave res
Call(op, args, res) ==
    LET r == res
    IN
    /\ Bounded(r)
    /\ tile' = r.s.tile
    /\ tile_committed' = r.s.tile_committed
    /\ mask' = r.s.mask
    /\ mask_committed' = r.s.mask_committed
    /\ timeseries' = r.s.timeseries
    /\ timeseries_committed' = r.s.timeseries_committed
    /\ timeseries_tile_link' = r.s.timeseries_tile_link
    /\ timeseries_tile_link_committed' = r.s.timeseries_tile_link_committed
    /\ multimodal' = multimodal
    /\ files' = r.s.files
    /\ created_files' = r.s.created_files
    /\ in_transaction' = r.s.in_transaction
    /\ db_transaction' = r.s.db_transaction
    /\ uuid' = r.s.uuid
    /\ seq_tile_id' = r.s.seq_tile_id
    /\ seq_mask_id' = r.s.seq_mask_id
    /\ seq_timeseries_id' = r.s.seq_timeseries_id
    /\ last' = [op |-> op, args |-> args, exc |-> r.exc, ret |-> r.ret,
                masks |-> r.masks, wrote |-> r.wrote,
                insert_failed |-> r.insert_failed, dup |-> r.dup,
                mask_failed |-> r.mask_failed, stuck |-> r.stuck]

\* the number of arguments of a tile add that are not the usual ones
Deviations(array, path, sat, date, fmt) ==
    (IF array = <<3, 2, 2>> THEN 0 ELSE 1)
    + (IF path \in ExistingSources THEN 0 ELSE 1)
    + (IF sat = "Sentinel-2" THEN 0 ELSE 1)
    + (IF date = Date_2024_12_12 THEN 0 ELSE 1)
    + (IF fmt = "npy" THEN 0 ELSE 1)

AddSingleTileFromArray ==
    \E array \in ShapeInputs, sat \in SatelliteInputs, date \in DateInputs,
       fmt \in FormatInputs, locked \in LockedInputs :
        /\ Deviations(array, SrcPath(1), sat, date, fmt) <= 1
        /\ Call("add_single_tile_from_array",
                [NoArgs EXCEPT !.shape = array, !.sat = sat, !.date = date,
                               !.fmt = fmt],
                add_single_tile_from_array(Cur, array, sat, date, fmt,
                                           FALSE, locked))

AddSingleTileFromPath ==
    \E path \in SourceInputs, sat \in SatelliteInputs, date \in DateInputs,
       exists_ok \in BOOLEAN, locked \in LockedInputs :
        /\ Deviations(<<3, 2, 2>>, path, sat, date, "npy")
               + (IF exists_ok THEN 1 ELSE 0) <= 1
        /\ Call("add_single_tile_from_path",
                [NoArgs EXCEPT !.path = path, !.sat = sat, !.date = date,
                               !.exists_ok = exists_ok,
                               !.again = \E r \in tile : r.source = path],
                add_single_tile_from_path(Cur, path, sat, date, exists_ok,
                                          FALSE, locked))

\* the dates tried with the sweeps
SweepDateInputs == {Date_2024_12_12, Date_2024_13_45}

\* the engine fails on no INSERT of a sweep or on that of its last patch
SweepFailures(offsets) ==
    IF offsets = <<>> THEN {{}} ELSE {{}, {offsets[Len(offsets)]}}

\* the arguments of a sweep that last keeps: all of them, or the format only
SweepArgs(observed, fmt, date, offsets, patch_size, accept, task, db_fail, locked) ==
    IF observed
    THEN [NoArgs EXCEPT !.fmt = fmt, !.date = date, !.offsets = offsets,
                        !.patch_size = patch_size, !.accept = accept,
                        !.task = task, !.db_fail = db_fail,
                        !.locked = locked]
    ELSE [NoArgs EXCEPT !.fmt = fmt]

SaveRasterPatchesObserving(observed) ==
    \E raster \in RasterInputs, patch_size \in PatchSizeInputs,
       stride \in StrideInputs, date \in SweepDateInputs,
       fmt \in FormatInputs, locked \in LockedInputs :
        LET offsets == patch_offsets(raster[1], raster[2], patch_size, stride)
        IN  \E accept \in SUBSET Range(offsets),
               db_fail \in SweepFailures(offsets) :
                /\ Deviations(<<3, 2, 2>>, SrcPath(1), "Sentinel-2", date,
                              fmt) <= 1
                \* an INSERT can only fail for a patch that is saved
                /\ db_fail \subseteq accept
                \* the format is asserted before the raster is opened
                /\ fmt \notin {"npy", "tif"} => offsets = <<>> /\ locked = {}
                \* every accepted patch draws a uuid4 name
                /\ fmt \in {"npy", "tif"}
                       => uuid + Cardinality(accept) <= MaxUuid + 1
                /\ Call("save_raster_patches",
                        SweepArgs(observed, fmt, date, offsets, patch_size,
                                  accept, "", db_fail, locked),
                        save_raster_patches(Cur, offsets, patch_size, accept,
                                            "Sentinel-2", date, fmt, db_fail,
                                            locked))

SaveRasterPatches ==
    /\ uuid <= MaxUuid + 1
    /\ SaveRasterPatchesObserving(FALSE)

SaveRasterPatchesWithMasksObserving(observed) ==
    \E raster \in RasterInputs, patch_size \in PatchSizeInputs,
       stride \in StrideInputs, date \in SweepDateInputs,
       task \in TaskInputs, fmt \in FormatInputs, locked \in LockedInputs :
        LET offsets == patch_offsets(raster[1], raster[2], patch_size, stride)
        IN  \E accept \in SUBSET Range(offsets) :
                /\ Deviations(<<3, 2, 2>>, SrcPath(1), "Sentinel-2", date,
                              fmt)
                       + (IF task \in MaskTaskType THEN 0 ELSE 1) <= 1
                \* the format is asserted before the rasters are opened
                /\ fmt \notin {"npy", "tif"} => offsets = <<>> /\ locked = {}
                \* every accepted patch draws a uuid4 name for its tile
                /\ fmt \in {"npy", "tif"}
                       => uuid + Cardinality(accept) <= MaxUuid + 1
                /\ Call("save_raster_patches_with_masks",
                        SweepArgs(observed, fmt, date, offsets, patch_size,
                                  accept, task, {}, locked),
                        save_raster_patches_with_masks(
                            Cur, offsets, patch_size, accept, "Sentinel-2",
                            date, task, fmt, {}, locked))

SaveRasterPatchesWithMasks ==
    /\ uuid <= MaxUuid + 1
    /\ SaveRasterPatchesWithMasksObserving(FALSE)

SaveChanges ==
    /\ in_transaction \in BOOLEAN
    /\ Call("save_changes", NoArgs,
            IF db_transaction THEN Return(save_changes(Cur), <<>>)
            ELSE Raise(save_changes(Cur), "TransactionException"))

AbortChanges ==
    \E locked \in LockedInputs :
        /\ in_transaction \in BOOLEAN
        /\ Call("abort_changes", NoArgs,
                [(IF db_transaction
                  THEN Return(abort_changes(Cur, locked), <<>>)
                  ELSE Raise(abort_changes(Cur, locked),
                             "TransactionException"))
                    EXCEPT !.stuck = created_files \cap files \cap locked])

Next ==
    \/ AddSingleTileFromArray
    \/ AddSingleTileFromPath
    \/ SaveRasterPatches
    \/ SaveRasterPatchesWithMasks
    \/ SaveChanges
    \/ AbortChanges

Spec == Init /\ [][Next]_vars

TypeOK ==
    /\ in_transaction \in BOOLEAN
    /\ db_transaction \in BOOLEAN
    /\ uuid \in 1..(MaxUuid + 1)
    /\ created_files \subseteq AllGenPaths
    /\ seq_timeseries_id \in 1..(MaxSeq + 1)

(***************************************************************************)
(* Properties of Spec                                                      *)
(***************************************************************************)
SeededNames == {r[1] : r \in SeededSatellites}

C2_TrackedEmptyAtBoundary ==
    (/\ last.op \in {"save_changes", "abort_changes"}
     /\ last.exc = "none")
        => created_files = {}

\* C3 as stated: when the INSERT of add_single_tile_from_array fails after
\* the array file was written, the call raises, the written file no longer
\* exists and no tile row has its path.
C3_FileGoneAfterFailedInsert ==
    (/\ last.op = "add_single_tile_from_array"
     /\ last.insert_failed)
        => /\ last.exc # "none"
           /\ last.wrote \cap files = {}
           /\ \A r \in tile : r.path \notin last.wrote

\* C3 as amended: when the INSERT of add_single_tile_from_array fails after
\* the array file was written, the call raises, no tile row has the file's
\* path, and the written file no longer exists unless os.remove failed on it
\* (the failure is printed, not raised).
C3_FileGoneUnlessRemoveFailed ==
    (/\ last.op = "add_single_tile_from_array"
     /\ last.insert_failed)
        => /\ last.exc # "none"
           /\ (last.wrote \ last.stuck) \cap files = {}
           /\ \A r \in tile : r.path \notin last.wrote

C3_Witness ==
    /\ last.op = "add_single_tile_from_array"
    /\ last.insert_failed
    /\ last.wrote # {}
    /\ last.stuck = {}
    /\ last.wrote \cap files = {}

\* C4: add_single_tile_from_path with exists_ok=true on a path already in
\* the catalog keeps every tile row and every file that existed before the
\* call.
C4_ToleratedDuplicateIsNoOp ==
    [][(/\ last'.op = "add_single_tile_from_path"
        /\ last'.args.exists_ok
        /\ last'.dup)
           => /\ tile \subseteq tile'
              /\ files \subseteq files']_vars

\* C5: add_single_tile_from_path with exists_ok=true on a path already in
\* the catalog returns without error the record of the existing tile, and
\* exactly one tile row has that path afterwards.
C5_ExistsOkIdempotent ==
    (/\ last.op = "add_single_tile_from_path"
     /\ last.args.exists_ok
     /\ last.dup)
        => /\ last.exc = "none"
           /\ Len(last.ret) = 1
           /\ {r \in tile : r.path = last.args.path} = {last.ret[1]}

\* C7: add_single_tile_from_array with an unknown satellite name or a
\* malformed date string raises and leaves neither a tile row nor an array
\* file it wrote.
C7_BadMetadataLeavesNothing ==
    (/\ last.op = "add_single_tile_from_array"
     /\ \/ last.args.sat \notin SeededNames
        \/ ~re_match_date(last.args.date.s))
        => /\ last.exc # "none"
           /\ last.wrote \cap files = {}
           /\ \A r \in tile : r.path \notin last.wrote

BadShape(shape) ==
    \/ Len(shape) # 3
    \/ shape[Len(shape)] # shape[Len(shape) - 1]

\* C8: for an array that is not 3-dimensional or whose last two axes differ,
\* add_single_tile_from_array raises the shape error before any I/O: no file
\* is written, no row is inserted, nothing is tracked.
C8_ShapeCheckedBeforeIO ==
    [][(/\ last'.op = "add_single_tile_from_array"
        /\ BadShape(last'.args.shape))
           => /\ last'.exc = "AssertionError"
              /\ last'.wrote = {}
              /\ UNCHANGED <<tile, tile_committed, mask, mask_committed,
                             timeseries, timeseries_committed,
                             timeseries_tile_link,
                             timeseries_tile_link_committed,
                             multimodal,
                             files, created_files, in_transaction,
                             db_transaction, uuid,
                             seq_tile_id, seq_mask_id,
                             seq_timeseries_id>>]_vars

C8_Witness ==
    /\ last.op = "add_single_tile_from_array"
    /\ last.args.shape = <<3, 2, 1>>
    /\ last.args.sat = "Sentinel-2"
    /\ last.exc = "AssertionError"
    /\ in_transaction

\* C9: every record in the list save_raster_patches returns is a success:
\* on return its row is in the catalog and its file exists.
C9_ReturnedPatchesAreStored ==
    (/\ last.op = "save_raster_patches"
     /\ last.exc = "none")
        => \A k \in 1..Len(last.ret) :
               /\ last.ret[k] \in tile
               /\ last.ret[k].path \in files

\* C10: in save_raster_patches_with_masks, a tile whose mask INSERT failed
\* after its own INSERT succeeded is not removed: its row and its file are
\* still present when the call returns.
C10_TileKeptWhenMaskFails ==
    last.op = "save_raster_patches_with_masks"
        => \A t \in last.mask_failed :
               /\ t \in tile
               /\ t.path \in files

\* C11: an add operation started while no transaction is open never returns
\* leaving the transaction it began open: on success the transaction is
\* closed and the returned rows are committed, on failure the transaction is
\* aborted and no tracked file is left on disk.
C11_AddEndsTerminal ==
    [][(/\ ~in_transaction
        /\ last'.op \in {"add_single_tile_from_array",
                         "add_single_tile_from_path"})
           => /\ ~in_transaction'
              /\ last'.exc = "none"
                    => \A k \in 1..Len(last'.ret) :
                           last'.ret[k] \in tile_committed'
              /\ last'.exc # "none"
                    => created_files' \cap files' = {}]_vars

\* C31: when the insert of a mask row failed in save_raster_patches_with_masks
\* or create_tile_masks_from_raster, every file the call wrote that is still
\* on disk when the call ends (a file whose os.remove failed aside) is the
\* path of a tile or mask row: no mask file is left without its row.
C31_NoMaskFileWithoutRow ==
    [][(/\ last'.op \in {"save_raster_patches_with_masks",
                         "create_tile_masks_from_raster"}
        /\ last'.mask_failed # {}) =>
           \A f \in (last'.wrote \ last'.stuck) \cap files' :
               \E r \in tile' \cup mask' : r.path = f]_vars

\* C27: abort_changes is best-effort on files: it removes every tracked file
\* whose os.remove succeeds, a failing os.remove is not raised (the call
\* raises only when no transaction is open) and leaves that one file, the
\* tracked set ends empty, and the open transaction is rolled back.
C27_RollbackIsBestEffort ==
    [][last'.op = "abort_changes" =>
           /\ last'.exc = (IF db_transaction THEN "none"
                           ELSE "TransactionException")
           /\ last'.stuck \subseteq created_files \cap files
           /\ files' = files \ (created_files \ last'.stuck)
           /\ created_files' = {}
           /\ ~db_transaction'
           /\ db_transaction =>
                  /\ tile' = tile_committed
                  /\ mask' = mask_committed
                  /\ UNCHANGED <<tile_committed, mask_committed>>]_vars

C27_Witness ==
    /\ last.op = "abort_changes"
    /\ last.exc = "none"
    /\ last.stuck = {GenPath(1)}
    /\ GenPath(1) \in files
    /\ uuid > 2
    /\ GenPath(2) \notin files
    /\ ~db_transaction

\* C23: add_single_tile_from_path with a source path that does not exist
\* raises, inserts no row and writes no file.
C23_MissingSourceStoresNothing ==
    [][(/\ last'.op = "add_single_tile_from_path"
        /\ last'.args.path \notin files)
           => /\ last'.exc # "none"
              /\ last'.ret = <<>>
              /\ last'.wrote = {}
              /\ UNCHANGED <<tile, tile_committed, files, created_files,
                             seq_tile_id, uuid>>]_vars

\* the call was made for a missing raster on a catalog that holds a tile
C23_Witness ==
    /\ last.op = "add_single_tile_from_path"
    /\ last.args.path = SrcPath(2)
    /\ last.args.path \notin files
    /\ last.exc = "ValueError"
    /\ tile # {}

(***************************************************************************)
(* The repository with BaseRepository.sql used for transaction statements  *)
(***************************************************************************)
\* the statements that change the transaction state of the connection
SqlInputs == {"BEGIN TRANSACTION;", "COMMIT;", "ABORT;"}

Sql ==
    \E query \in SqlInputs :
        /\ in_transaction \in BOOLEAN
        /\ Call("sql", [NoArgs EXCEPT !.query = query], sql(Cur, query))

NextSql ==
    \/ AddSingleTileFromArray
    \/ AddSingleTileFromPath
    \/ SaveChanges
    \/ AbortChanges
    \/ Sql

SpecSql == Init /\ [][NextSql]_vars

\* C12: at most one transaction is active per repository: _in_transaction is
\* true exactly when a transaction is open on the connection (so BEGIN, which
\* is issued only when _in_transaction is false, never meets an open
\* transaction, and an operation called while one is open reuses it).
C12_FlagMatchesConnection ==
    in_transaction = db_transaction

(***************************************************************************)
(* Sweeps with a validator, the arguments of each sweep kept in last        *)
(***************************************************************************)
ValidatedSaveRasterPatches ==
    /\ uuid <= MaxUuid + 1
    /\ SaveRasterPatchesObserving(TRUE)

ValidatedSaveRasterPatchesWithMasks ==
    /\ uuid <= MaxUuid + 1
    /\ SaveRasterPatchesWithMasksObserving(TRUE)

NextValidator ==
    \/ ValidatedSaveRasterPatches
    \/ ValidatedSaveRasterPatchesWithMasks
    \/ AddSingleTileFromArray
    \/ SaveChanges
    \/ AbortChanges

SpecValidator == Init /\ [][NextValidator]_vars

\* the offsets of a sweep whose patch the validator accepts
AcceptedOffsets(offsets, accept) ==
    LET Accepted(o) == o \in accept
    IN  SelectSeq(offsets, Accepted)

\* C15: a patch the validator rejects leaves no tile record and no file and
\* raises nothing, and the sweep ends as the sweep over the accepted
\* patches alone does (same records returned, same catalog, same files);
\* the tiles created are never more than the grid positions.
C15_RejectedPatchIsAbsent ==
    [][last'.op \in {"save_raster_patches", "save_raster_patches_with_masks"} =>
        LET a == last'.args
            alone == IF last'.op = "save_raster_patches"
                     THEN save_raster_patches(
                              Cur, AcceptedOffsets(a.offsets, a.accept),
                              a.patch_size, a.accept, "Sentinel-2", a.date,
                              a.fmt, a.db_fail, a.locked)
                     ELSE save_raster_patches_with_masks(
                              Cur, AcceptedOffsets(a.offsets, a.accept),
                              a.patch_size, a.accept, "Sentinel-2", a.date,
                              a.task, a.fmt, a.db_fail, a.locked)
        IN  /\ Cur' = alone.s
            /\ last'.masks = alone.masks
            /\ last'.ret = alone.ret
            /\ last'.exc = alone.exc
            /\ last'.wrote = alone.wrote
            /\ a.fmt \in {"npy", "tif"} => last'.exc = "none"
            \* one file for a tile, and one for its mask
            /\ Cardinality(last'.wrote)
                  <= Cardinality(a.accept)
                       * (IF last'.op = "save_raster_patches" THEN 1 ELSE 2)
            /\ Len(last'.ret) <= Cardinality(a.accept)
            /\ Len(last'.ret) <= Len(a.offsets)
            /\ Cardinality(tile' \ tile) <= Cardinality(a.accept)]_vars

\* the first patch of a sweep was rejected and the second one stored
C15_Witness ==
    /\ last.op = "save_raster_patches"
    /\ Len(last.args.offsets) = 2
    /\ last.args.accept = {last.args.offsets[2]}
    /\ last.exc = "none"
    /\ Len(last.ret) = 1
    /\ last.ret[1] \in tile
    /\ Cardinality(last.wrote) = 1

(***************************************************************************)
(* TileBankRepository of src/tile_bank_repository.py: the earlier layout,   *)
(* without file tracking; a tile made from a raster is stored as a new .npy *)
(* file and the row carries the path of that file                           *)
(***************************************************************************)
\* datetime.strptime(s, "%Y-%m-%d") succeeds
strptime_ok(s) ==
    /\ Len(s) = 10
    /\ IsCalendarDate(s)

\* the (year, month, day) of a string of the form dddd-dd-dd
DateOf(s) ==
    <<1000 * DigitVal(s[1]) + 100 * DigitVal(s[2]) + 10 * DigitVal(s[3])
          + DigitVal(s[4]),
      10 * DigitVal(s[6]) + DigitVal(s[7]),
      10 * DigitVal(s[9]) + DigitVal(s[10])>>

\* TileBankRepository.parse_date_origin of src/tile_bank_repository.py:
\* a datetime gives a str, a str gives a datetime
root_parse_date_origin(date_origin) ==
    IF date_origin.type = "datetime"
    THEN [exc |-> "none", val |-> PyStr(strftime(date_origin.ymd))]
    ELSE IF date_origin.type # "str"
    THEN [exc |-> "TypeError", val |-> PyNone]
    ELSE IF ~re_match_date(date_origin.s)
    THEN [exc |-> "ValueError", val |-> PyNone]
    ELSE IF ~strptime_ok(date_origin.s)
    THEN [exc |-> "ValueError", val |-> PyNone]
    ELSE [exc |-> "none",
          val |-> PyDatetime(DateOf(date_origin.s)[1],
                             DateOf(date_origin.s)[2],
                             DateOf(date_origin.s)[3])]

\* date_origin.strftime("%Y-%m-%d") if isinstance(date_origin, datetime)
\* else date_origin
root_date_column(date) ==
    IF date.type = "datetime" THEN PyStr(strftime(date.ymd)) ELSE date

\* transactional(check_table(BaseRepository.add_record)) of a repository
\* that does not override abort_changes
root_add_record(s, table, data, db_err) ==
    LET s1 == begin_transaction(s)
        err == insert_error(s1, table, data, db_err)
        row == new_row(s1, table, data)
    IN  IF err # "none"
        THEN [Raise(base_abort_changes(s1), err) EXCEPT
                 !.insert_failed = TRUE,
                 !.dup = (err = "ConstraintException")]
        ELSE IF table = "mask"
        THEN Return([s1 EXCEPT !.mask = @ \cup {row},
                               !.seq_mask_id = @ + 1], <<row>>)
        ELSE Return([s1 EXCEPT !.tile = @ \cup {row},
                               !.seq_tile_id = @ + 1], <<row>>)

\* add_single_tile_from_path(path, satellite_name, date_origin, exists_ok)
\* of src/tile_bank_repository.py, for a raster with an EPSG CRS
root_add_single_tile_from_path(s, path, satellite_name, date_origin, exists_ok, db_err) ==
    LET satellite == find_satellite(satellite_name)
        date == root_parse_date_origin(date_origin)
    IN  IF satellite.exc # "none" THEN Raise(s, satellite.exc)
        ELSE IF date.exc # "none" THEN Raise(s, date.exc)
        ELSE IF path \notin s.files THEN Raise(s, "ValueError")
        \* rasterio.open of a file written by np.save
        ELSE IF path[1] = "gen" THEN Raise(s, "RasterioIOError")
        ELSE
        LET npy_path == new_path(s)
            s1 == [s EXCEPT !.uuid = @ + 1, !.files = @ \cup {npy_path}]
            r == root_add_record(s1, "tile",
                                 TileData(npy_path, satellite.id,
                                          root_date_column(date.val), path),
                                 db_err)
            removed == [r.s EXCEPT !.files = @ \ {npy_path}]
        IN  IF r.exc = "ConstraintException"
            THEN IF ~exists_ok
                 THEN [r EXCEPT !.s = removed,
                                !.exc = "ValueError: already exists",
                                !.wrote = {npy_path}]
                 ELSE [r EXCEPT !.s = removed,
                                !.exc = "UnboundLocalError",
                                !.wrote = {npy_path}]
            ELSE [r EXCEPT !.wrote = {npy_path}]

RootDateInputs == DateInputs \cup {PyDatetime(2024, 12, 12)}

RootAddSingleTileFromPath ==
    \E path \in SourceInputs, sat \in SatelliteInputs,
       date \in RootDateInputs, exists_ok \in BOOLEAN, db_err \in BOOLEAN :
        /\ created_files = {}
        /\ Call("add_single_tile_from_path",
                [NoArgs EXCEPT !.path = path, !.sat = sat, !.date = date,
                               !.exists_ok = exists_ok,
                               !.again = \E r \in tile : r.source = path],
                root_add_single_tile_from_path(Cur, path, sat, date,
                                               exists_ok, db_err))

RootSaveChanges ==
    /\ created_files = {}
    /\ Call("save_changes", NoArgs,
            IF db_transaction THEN Return(save_changes(Cur), <<>>)
            ELSE Raise(save_changes(Cur), "TransactionException"))

RootAbortChanges ==
    /\ created_files = {}
    /\ Call("abort_changes", NoArgs,
            IF db_transaction THEN Return(base_abort_changes(Cur), <<>>)
            ELSE Raise(base_abort_changes(Cur), "TransactionException"))

\* add_single_tile_from_array(array, satellite_name, date_origin) of
\* src/tile_bank_repository.py: the array is saved with np.save and the file
\* is given to add_single_tile_from_path
root_add_single_tile_from_array(s, satellite_name, date_origin) ==
    LET file_path == new_path(s)
        s1 == [s EXCEPT !.uuid = @ + 1, !.files = @ \cup {file_path}]
        r == root_add_single_tile_from_path(s1, file_path, satellite_name,
                                            date_origin, FALSE, FALSE)
    IN  [r EXCEPT !.wrote = @ \cup {file_path}]

\* "2024-11-30"
Date_2024_11_30 == PyStr(<<"2", "0", "2", "4", "-", "1", "1", "-", "3", "0">>)

\* the (year, month, day) a datetime or a string dddd-dd-dd stands for
DayOf(date) == IF date.type = "datetime" THEN date.ymd ELSE DateOf(date.s)

\* a < b for (year, month, day)
DayBefore(a, b) ==
    \/ a[1] < b[1]
    \/ a[1] = b[1] /\ a[2] < b[2]
    \/ a[1] = b[1] /\ a[2] = b[2] /\ a[3] < b[3]

\* list.sort() compares a str with a datetime
sort_error(dates) ==
    \E i \in DOMAIN dates, j \in DOMAIN dates : dates[i].type # dates[j].type

RECURSIVE insert_sorted(_, _)
insert_sorted(sorted, date) ==
    IF sorted = <<>> THEN <<date>>
    ELSE IF DayBefore(DayOf(date), DayOf(Head(sorted)))
    THEN <<date>> \o sorted
    ELSE <<Head(sorted)>> \o insert_sorted(Tail(sorted), date)

\* list.sort() of datetimes, or of strings of the form dddd-dd-dd (their
\* lexicographic order is the order of their days)
RECURSIVE list_sort(_)
list_sort(dates) ==
    IF dates = <<>> THEN <<>>
    ELSE insert_sorted(list_sort(SubSeq(dates, 1, Len(dates) - 1)),
                       dates[Len(dates)])

\* self.parse_date_origin of every date of the list
parse_date_origins(date_origins) ==
    [i \in DOMAIN date_origins |-> root_parse_date_origin(date_origins[i])]

\* the exception of the first date that does not parse ("none" if all do)
first_parse_error(parsed) ==
    LET failed == {i \in DOMAIN parsed : parsed[i].exc # "none"}
    IN  IF failed = {} THEN "none"
        ELSE parsed[CHOOSE i \in failed : \A j \in failed : i <= j].exc

\* add_record("timeseries", {"start_date": ..., "end_date": ...})
root_add_timeseries_record(s, start_date, end_date) ==
    LET s1 == begin_transaction(s)
        row == [id |-> s1.seq_timeseries_id, start_date |-> start_date,
                end_date |-> end_date]
    IN  Return([s1 EXCEPT !.timeseries = @ \cup {row},
                          !.seq_timeseries_id = @ + 1], <<row>>)

\* the result so far with the tile r added, or with the exception of r
append_result(acc, r) ==
    [r EXCEPT !.ret = acc.ret \o r.ret, !.wrote = acc.wrote \cup r.wrote]

\* the loop that adds the tiles of add_timeseries_from_path; acc is the
\* result so far (tiles in acc.ret)
RECURSIVE root_add_timeseries_tiles(_, _, _, _)
root_add_timeseries_tiles(acc, paths, satellite_name, date_origins) ==
    IF paths = <<>> \/ acc.exc # "none" THEN acc
    ELSE root_add_timeseries_tiles(
             append_result(acc,
                           root_add_single_tile_from_path(
                               acc.s, Head(paths), satellite_name,
                               Head(date_origins), TRUE, FALSE)),
             Tail(paths), satellite_name, Tail(date_origins))

\* the loop that links the tiles to the timeseries
RECURSIVE root_link_tiles(_, _, _)
root_link_tiles(s, timeseries_id, tiles) ==
    IF tiles = <<>> THEN s
    ELSE root_link_tiles(
             [begin_transaction(s) EXCEPT
                 !.timeseries_tile_link =
                     Append(@, [timeseries_id |-> timeseries_id,
                                tile_id |-> Head(tiles).id])],
             timeseries_id, Tail(tiles))

\* add_timeseries_from_path once the timeseries record ts is inserted
root_link_timeseries(added, ts) ==
    [added EXCEPT !.s = root_link_tiles(ts.s, ts.ret[1].id, added.ret),
                  !.ret = ts.ret]

\* add_timeseries_from_path once the tiles are added (added), for the
\* sorted dates
root_create_timeseries(added, sorted) ==
    IF added.exc # "none" THEN [added EXCEPT !.ret = <<>>]
    \* date_origins[0].strftime("%Y-%m-%d")
    ELSE IF sorted = <<>> THEN [added EXCEPT !.exc = "IndexError"]
    ELSE IF sorted[1].type # "datetime"
    THEN [added EXCEPT !.exc = "AttributeError", !.ret = <<>>]
    ELSE root_link_timeseries(
             added,
             root_add_timeseries_record(added.s, strftime(sorted[1].ymd),
                                        strftime(sorted[Len(sorted)].ymd)))

\* the values parse_date_origin returned
parsed_values(parsed) == [i \in DOMAIN parsed |-> parsed[i].val]

\* add_timeseries_from_path once the lengths are compared, parsed the
\* results of parse_date_origin
root_add_parsed_timeseries(s, paths, satellite_name, parsed) ==
    IF first_parse_error(parsed) # "none"
    THEN Raise(s, first_parse_error(parsed))
    ELSE IF sort_error(parsed_values(parsed)) THEN Raise(s, "TypeError")
    ELSE root_create_timeseries(
             root_add_timeseries_tiles(Return(s, <<>>), paths,
                                       satellite_name,
                                       list_sort(parsed_values(parsed))),
             list_sort(parsed_values(parsed)))

\* add_timeseries_from_path(paths, satellite_name, date_origins)
root_add_timeseries_from_path(s, paths, satellite_name, date_origins) ==
    IF Len(paths) # Len(date_origins) THEN Raise(s, "ValueError")
    ELSE root_add_parsed_timeseries(s, paths, satellite_name,
                                    parse_date_origins(date_origins))

\* the loop over the time steps of add_timeseries_from_array
RECURSIVE root_add_timesteps(_, _, _, _, _)
root_add_timesteps(acc, i, steps, satellite_name, date_origins) ==
    IF i > steps \/ acc.exc # "none" THEN acc
    ELSE IF i > Len(date_origins) THEN [acc EXCEPT !.exc = "IndexError"]
    ELSE root_add_timesteps(
             append_result(acc,
                           root_add_single_tile_from_array(
                               acc.s, satellite_name, date_origins[i])),
             i + 1, steps, satellite_name, date_origins)

\* add_timeseries_from_array returns timeseries_record
root_return_timeseries(linked, steps, ts) ==
    IF linked.exc # "none" THEN [linked EXCEPT !.wrote = @ \cup steps.wrote]
    ELSE [linked EXCEPT !.wrote = @ \cup steps.wrote, !.ret = ts.ret]

\* add_timeseries_from_array once the time steps are added (steps): the
\* call of add_timeseries_from_path
root_link_timesteps(steps, ts, satellite_name, sorted) ==
    IF steps.exc # "none" THEN [steps EXCEPT !.ret = <<>>]
    ELSE root_return_timeseries(
             root_add_timeseries_from_path(
                 steps.s, [k \in DOMAIN steps.ret |-> steps.ret[k].path],
                 satellite_name, sorted),
             steps, ts)

\* add_timeseries_from_array once the timeseries record ts is inserted
root_add_timesteps_of(ts, shape, satellite_name, sorted) ==
    root_link_timesteps(
        root_add_timesteps(Return(ts.s, <<>>), 1, shape[1], satellite_name,
                           sorted),
        ts, satellite_name, sorted)

\* add_timeseries_from_array once date_origins is sorted
root_add_sorted_timesteps(s, shape, satellite_name, sorted) ==
    IF sorted = <<>> THEN Raise(s, "IndexError")
    ELSE IF sorted[1].type # "datetime" THEN Raise(s, "AttributeError")
    ELSE root_add_timesteps_of(
             root_add_timeseries_record(s, strftime(sorted[1].ymd),
                                        strftime(sorted[Len(sorted)].ymd)),
             shape, satellite_name, sorted)

\* add_timeseries_from_array(data, satellite_name, date_origins), data of
\* the shape given
\* (first: without the two assertions on the shape)
root_add_timeseries_from_array_unasserted(s, shape, satellite_name, date_origins) ==
    IF first_parse_error(parse_date_origins(date_origins)) # "none"
    THEN Raise(s, first_parse_error(parse_date_origins(date_origins)))
    ELSE IF find_satellite(satellite_name).exc # "none"
    THEN Raise(s, find_satellite(satellite_name).exc)
    ELSE IF sort_error(date_origins) THEN Raise(s, "TypeError")
    ELSE root_add_sorted_timesteps(s, shape, satellite_name,
                                   list_sort(date_origins))
root_add_timeseries_from_array(s, shape, satellite_name, date_origins) ==
    IF Len(shape) # 4 THEN Raise(s, "AssertionError")
    ELSE IF shape[4] # shape[3] THEN Raise(s, "AssertionError")
    ELSE IF first_parse_error(parse_date_origins(date_origins)) # "none"
    THEN Raise(s, first_parse_error(parse_date_origins(date_origins)))
    ELSE IF find_satellite(satellite_name).exc # "none"
    THEN Raise(s, find_satellite(satellite_name).exc)
    ELSE IF sort_error(date_origins) THEN Raise(s, "TypeError")
    ELSE root_add_sorted_timesteps(s, shape, satellite_name,
                                   list_sort(date_origins))

\* the date lists given to the timeseries adds: none, one or two dates, as
\* strings, as datetimes or as both, later dates first
TimeseriesDateInputs ==
    {<<>>,
     <<Date_2024_12_12>>,
     <<PyDatetime(2024, 12, 12)>>,
     <<Date_2024_12_12, Date_2024_11_30>>,
     <<PyDatetime(2024, 12, 12), PyDatetime(2024, 11, 30)>>,
     <<PyDatetime(2024, 11, 30), Date_2024_12_12>>}

\* the path lists: none, one or two rasters
TimeseriesPathInputs ==
    {<<>>, <<SrcPath(1)>>, <<SrcPath(1), SrcPath(1)>>}

\* arrays of one and of two time steps, a 3-D array, and a 4-D array whose
\* last two axes differ
TimeseriesShapeInputs ==
    {<<1, 3, 2, 2>>, <<2, 3, 2, 2>>, <<3, 2, 2>>, <<1, 3, 2, 1>>}

RootAddTimeseriesFromPath ==
    \E paths \in TimeseriesPathInputs,
       date_origins \in TimeseriesDateInputs :
        /\ created_files = {}
        /\ Call("add_timeseries_from_path",
                [NoArgs EXCEPT !.paths = paths, !.sat = "Sentinel-2",
                               !.dates = date_origins],
                root_add_timeseries_from_path(Cur, paths, "Sentinel-2",
                                              date_origins))

RootAddTimeseriesFromArray ==
    \E shape \in TimeseriesShapeInputs,
       date_origins \in TimeseriesDateInputs :
        /\ created_files = {}
        /\ Call("add_timeseries_from_array",
                [NoArgs EXCEPT !.shape = shape, !.sat = "Sentinel-2",
                               !.dates = date_origins],
                root_add_timeseries_from_array(Cur, shape, "Sentinel-2",
                                               date_origins))

NextRoot ==
    \/ RootAddSingleTileFromPath
    \/ RootSaveChanges
    \/ RootAbortChanges

SpecRoot == Init /\ [][NextRoot]_vars

NextTimeseries ==
    \/ RootAddTimeseriesFromPath
    \/ RootAddTimeseriesFromArray
    \/ RootSaveChanges
    \/ RootAbortChanges

SpecTimeseries == Init /\ [][NextTimeseries]_vars

\* add_multimodal_from_path(high_res_path, timeseries_paths, satellite_name,
\* date_origin) of src/tile_bank_repository.py
root_add_multimodal_from_path(s, high_res_path, timeseries_paths, satellite_name, date_origin) ==
    Raise(s, "NotImplementedError")

\* add_multimodal_from_array(high_res_data, timeseries_data, satellite_name,
\* date_origin) of src/tile_bank_repository.py
root_add_multimodal_from_array(s, high_res_data, timeseries_data, satellite_name, date_origin) ==
    Raise(s, "NotImplementedError")

\* timeseries arrays of one and of two time steps, and a 3-D array
MultimodalShapeInputs == {<<1, 3, 2, 2>>, <<2, 3, 2, 2>>, <<3, 2, 2>>}

RootAddMultimodalFromPath ==
    \E high_res_path \in SourceInputs, paths \in TimeseriesPathInputs,
       date \in RootDateInputs :
        /\ created_files = {}
        /\ Call("add_multimodal_from_path",
                [NoArgs EXCEPT !.path = high_res_path, !.paths = paths,
                               !.sat = "Sentinel-2", !.date = date],
                root_add_multimodal_from_path(Cur, high_res_path, paths,
                                              "Sentinel-2", date))

RootAddMultimodalFromArray ==
    \E high_res_data \in ShapeInputs,
       timeseries_data \in MultimodalShapeInputs, date \in RootDateInputs :
        /\ created_files = {}
        /\ Call("add_multimodal_from_array",
                [NoArgs EXCEPT !.shape = high_res_data, !.sat = "Sentinel-2",
                               !.timeseries_data = timeseries_data,
                               !.date = date],
                root_add_multimodal_from_array(Cur, high_res_data,
                                               timeseries_data, "Sentinel-2",
                                               date))

NextMultimodal ==
    \/ RootAddMultimodalFromPath
    \/ RootAddMultimodalFromArray
    \/ RootAddSingleTileFromPath
    \/ RootAddTimeseriesFromPath
    \/ RootSaveChanges
    \/ RootAbortChanges

SpecMultimodal == Init /\ [][NextMultimodal]_vars

\* C21: add_multimodal_from_path and add_multimodal_from_array, given a
\* high-resolution raster and a timeseries that can be added, return after
\* adding the tile and the timeseries and creating exactly one multimodal
\* row, which references that tile and that timeseries.
C21_OneMultimodalRow ==
    [][(/\ last'.op \in {"add_multimodal_from_path",
                         "add_multimodal_from_array"}
        /\ last'.args.date \in {Date_2024_12_12, PyDatetime(2024, 12, 12)}
        /\ last'.op = "add_multimodal_from_path" =>
               /\ last'.args.path \in ExistingSources
               /\ last'.args.paths # <<>>
        /\ last'.op = "add_multimodal_from_array" =>
               last'.args.shape = <<3, 2, 2>>)
           => /\ last'.exc = "none"
              /\ \E m \in multimodal' :
                    /\ multimodal' \ multimodal = {m}
                    /\ \E r \in tile' \ tile : m.high_resolution_id = r.id
                    /\ \E ts \in timeseries' \ timeseries :
                          m.timeseries_id = ts.id]_vars

\* C33: add_multimodal_from_array given a high-resolution array that is not
\* 3-dimensional, or a timeseries array that is not 4-dimensional, raises
\* AssertionError and stores nothing.
C33_BadMultimodalArrayRejected ==
    [][(/\ last'.op = "add_multimodal_from_array"
        /\ \/ Len(last'.args.shape) # 3
           \/ Len(last'.args.timeseries_data) # 4) =>
           /\ last'.exc = "AssertionError"
           /\ last'.wrote = {}
           /\ UNCHANGED <<tile, timeseries, timeseries_tile_link, multimodal,
                          files>>]_vars

(***************************************************************************)
(* Properties of SpecTimeseries                                            *)
(***************************************************************************)
\* the links of the timeseries with the id given, in insertion order
LinksOf(timeseries_id) ==
    LET OfTimeseries(l) == l.timeseries_id = timeseries_id
    IN  SelectSeq(timeseries_tile_link, OfTimeseries)

\* the day of the tile row with the id given
TileDay(tile_id) == DateOf((CHOOSE r \in tile : r.id = tile_id).date_origin)

\* C16: add_timeseries_from_path, given as many dates as paths (strings
\* YYYY-MM-DD or datetimes), creates one timeseries row whose start_date is
\* the earliest and whose end_date is the latest of the dates given, and
\* one link row for each member tile, in ascending order of the tiles'
\* dates.
C16_TimeseriesSpansDates ==
    (/\ last.op = "add_timeseries_from_path"
     /\ Len(last.args.paths) = Len(last.args.dates)
     /\ Len(last.args.dates) >= 1)
        => /\ last.exc = "none"
           /\ Len(last.ret) = 1
           /\ last.ret[1] \in timeseries
           /\ \E first \in DOMAIN last.args.dates,
                 latest \in DOMAIN last.args.dates :
                 /\ \A k \in DOMAIN last.args.dates :
                       /\ ~DayBefore(DayOf(last.args.dates[k]),
                                     DayOf(last.args.dates[first]))
                       /\ ~DayBefore(DayOf(last.args.dates[latest]),
                                     DayOf(last.args.dates[k]))
                 /\ last.ret[1].start_date
                       = strftime(DayOf(last.args.dates[first]))
                 /\ last.ret[1].end_date
                       = strftime(DayOf(last.args.dates[latest]))
           /\ ~DayBefore(DateOf(last.ret[1].end_date),
                         DateOf(last.ret[1].start_date))
           /\ LET links == LinksOf(last.ret[1].id)
              IN  /\ Len(links) = Len(last.args.paths)
                  /\ \A k \in DOMAIN links, l \in DOMAIN links :
                        k < l => /\ links[k].tile_id # links[l].tile_id
                                 /\ ~DayBefore(TileDay(links[l].tile_id),
                                               TileDay(links[k].tile_id))

\* C17: a timeseries add given a number of dates that differs from its
\* number of items (paths, or time steps of the array) raises, and inserts
\* no tile, timeseries or link row and writes no file.
C17_CountMismatchStoresNothing ==
    [][(\/ /\ last'.op = "add_timeseries_from_path"
           /\ Len(last'.args.paths) # Len(last'.args.dates)
        \/ /\ last'.op = "add_timeseries_from_array"
           /\ Len(last'.args.shape) = 4
           /\ last'.args.shape[1] # Len(last'.args.dates))
           => /\ last'.exc # "none"
              /\ last'.wrote = {}
              /\ UNCHANGED <<tile, timeseries, timeseries_tile_link,
                             files>>]_vars

\* C30: add_timeseries_from_array on an array of shape (T, bands, H, W)
\* with T dates returns, adds exactly one timeseries row and T tile rows,
\* and returns that timeseries row, which is the one the T new link rows
\* point to.
C30_OneTimeseriesForArray ==
    [][(/\ last'.op = "add_timeseries_from_array"
        /\ Len(last'.args.shape) = 4
        /\ last'.args.shape[3] = last'.args.shape[4]
        /\ last'.args.shape[1] = Len(last'.args.dates)) =>
           /\ last'.exc = "none"
           /\ Cardinality(timeseries' \ timeseries) = 1
           /\ Cardinality(tile' \ tile) = last'.args.shape[1]
           /\ Len(last'.ret) = 1
           /\ last'.ret[1] \in timeseries' \ timeseries
           /\ Len(timeseries_tile_link')
                  = Len(timeseries_tile_link) + last'.args.shape[1]
           /\ \A k \in DOMAIN timeseries_tile_link' :
                  k > Len(timeseries_tile_link) =>
                      /\ timeseries_tile_link'[k].timeseries_id
                             = last'.ret[1].id
                      /\ \E r \in tile' \ tile :
                             r.id = timeseries_tile_link'[k].tile_id]_vars

TwoSources == {SrcPath(1), SrcPath(3)}

\* the path lists: one raster, or the two in either order
OrderedPathInputs ==
    {<<SrcPath(1)>>, <<SrcPath(1), SrcPath(3)>>, <<SrcPath(3), SrcPath(1)>>}

\* the date lists: strings or datetimes, earlier or later date first
OrderedDateInputs ==
    {<<Date_2024_12_12>>,
     <<Date_2024_11_30, Date_2024_12_12>>,
     <<Date_2024_12_12, Date_2024_11_30>>,
     <<PyDatetime(2024, 12, 12), PyDatetime(2024, 11, 30)>>}

InitOrder ==
    /\ NewRepository(TwoSources)
    /\ last = [op |-> "init", args |-> NoArgs, exc |-> "none", ret |-> <<>>,
               masks |-> <<>>, wrote |-> {}, insert_failed |-> FALSE,
               dup |-> FALSE, mask_failed |-> {}, stuck |-> {}]

RootAddTimeseriesInOrder ==
    \E paths \in OrderedPathInputs, date_origins \in OrderedDateInputs :
        /\ created_files = {}
        /\ Len(paths) = Len(date_origins)
        /\ Call("add_timeseries_from_path",
                [NoArgs EXCEPT !.paths = paths, !.sat = "Sentinel-2",
                               !.dates = date_origins],
                root_add_timeseries_from_path(Cur, paths, "Sentinel-2",
                                              date_origins))

NextOrder ==
    \/ RootAddTimeseriesInOrder
    \/ RootAddSingleTileFromPath
    \/ RootSaveChanges
    \/ RootAbortChanges

SpecOrder == InitOrder /\ [][NextOrder]_vars

\* C29: after add_timeseries_from_path returns, every path of the call has
\* a new tile row made from it that carries the date the caller gave at the
\* index of that path, whatever the order of the dates.
C29_TileKeepsItsDate ==
    [][(/\ last'.op = "add_timeseries_from_path"
        /\ last'.exc = "none") =>
           \A i \in DOMAIN last'.args.paths :
               \E r \in tile' \ tile :
                   /\ r.source = last'.args.paths[i]
                   /\ r.date_origin = strftime(DayOf(last'.args.dates[i]))]_vars

(***************************************************************************)
(* Properties of SpecRoot                                                  *)
(***************************************************************************)
\* C6: adding a tile from the same source raster a second time with
\* exists_ok=false raises the duplicate-tile error, and that error is raised
\* only when the INSERT was refused for its path.
C6_DuplicateSourceRaises ==
    /\ (/\ last.op = "add_single_tile_from_path"
        /\ ~last.args.exists_ok
        /\ last.args.again
        /\ last.args.sat \in SeededNames
        /\ last.args.date = Date_2024_12_12
        /\ last.args.path \in files
        /\ ~last.insert_failed)
           => last.exc = "ValueError: already exists"
    /\ (/\ last.op = "add_single_tile_from_path"
        /\ last.exc = "ValueError: already exists")
           => last.dup

(***************************************************************************)
(* Functions that touch neither the catalog nor the disk, applied to       *)
(* inputs drawn from small sets; last holds the call and its result        *)
(***************************************************************************)
repo_vars == <<tile, tile_committed, mask, mask_committed, timeseries,
               timeseries_committed, timeseries_tile_link,
               timeseries_tile_link_committed, multimodal, files,
               created_files, in_transaction, db_transaction, uuid,
               seq_tile_id, seq_mask_id, seq_timeseries_id>>

\* the arguments args are given to a function
PureInput(args) ==
    [op |-> "input", args |-> args, exc |-> "none", ret |-> <<>>]

\* the function op is applied to the arguments given: it raises exc, or
\* returns ret (exc = "none")
PureCall(op, exc, ret) ==
    /\ last.op = "input"
    /\ last' = [op |-> op, args |-> last.args, exc |-> exc, ret |-> ret]
    /\ UNCHANGED repo_vars

(***************************************************************************)
(* src/repository/spatial/utils.py                                         *)
(***************************************************************************)
\* coefficients of the affine transforms tried, and patch offsets
CoefInputs == {-1, 0, 2}
OffsetInputs == {0, 1, 2}

\* Affine(a, b, c, d, e, f) as <<a, b, c, d, e, f>>
AffineInputs ==
    {<<a, b, c, d, e, f>> : a \in CoefInputs, b \in CoefInputs,
                            c \in CoefInputs, d \in CoefInputs,
                            e \in CoefInputs, f \in CoefInputs}

\* Affine * (col, row): x = a*col + b*row + c, y = d*col + e*row + f
affine_apply(T, col, row) ==
    <<(T[1] * col) + (T[2] * row) + T[3], (T[4] * col) + (T[5] * row) + T[6]>>

\* create_patch_transform(base_transform, i, j)
create_patch_transform(base_transform, i, j) ==
    <<base_transform[1],
      base_transform[2],
      base_transform[3] + (j * base_transform[1]),
      base_transform[4],
      base_transform[5],
      base_transform[6] + (i * base_transform[5])>>

\* arguments <<base_transform, i, j>>
InitSpatial ==
    /\ IdleRepository
    /\ last \in {PureInput(<<T, i, j>>) :
                    T \in AffineInputs, i \in OffsetInputs, j \in OffsetInputs}

CreatePatchTransform ==
    /\ Len(last.args) = 3
    /\ PureCall("create_patch_transform", "none",
                create_patch_transform(last.args[1], last.args[2],
                                       last.args[3]))

NextSpatial ==
    \/ CreatePatchTransform

SpecSpatial == InitSpatial /\ [][NextSpatial]_vars

\* C13: for every affine base transform T, rotation and shear terms
\* included, and all offsets (i, j), create_patch_transform(T, i, j) maps
\* pixel (0, 0) to the point T maps pixel (col = j, row = i) to, and keeps
\* the scale and rotation coefficients of T.
C13_PatchOriginIsBasePixel ==
    last.op = "create_patch_transform"
        => /\ affine_apply(last.ret, 0, 0)
                 = affine_apply(last.args[1], last.args[3], last.args[2])
           /\ \A k \in {1, 2, 4, 5} : last.ret[k] = last.args[1][k]

(***************************************************************************)
(* The grid of the patch sweeps                                            *)
(***************************************************************************)
\* raster sides and patch sizes / strides tried, besides the 100 x 100
\* rasters cut into patches of 32 and of 50
MaxSide == 5
MaxPatch == 3

\* arguments <<height, width, patch_size, stride>>
SweepInputs ==
    ((1..MaxSide) \X (1..MaxSide) \X (1..MaxPatch) \X (1..MaxPatch))
        \cup {<<100, 100, 32, 32>>, <<100, 100, 50, 50>>}

InitSweep ==
    /\ IdleRepository
    /\ last \in {PureInput(a) : a \in SweepInputs}

\* the loops of add_tiles_from_array and of get_patch_indicies (no stride
\* parameter: the patches are laid side by side)
\* (first: with the extent rounded up to a multiple of patch_size)
root_patch_offsets_rounded_up(full_height, full_width, patch_size) ==
    LET max_height == ((full_height + patch_size - 1) \div patch_size)
                          * patch_size
        max_width == ((full_width + patch_size - 1) \div patch_size)
                         * patch_size
    IN  CrossRows(PyRange(max_height, patch_size),
                  PyRange(max_width, patch_size))
root_patch_offsets(full_height, full_width, patch_size) ==
    LET max_height == (full_height \div patch_size) * patch_size
        max_width == (full_width \div patch_size) * patch_size
    IN  CrossRows(PyRange(max_height, patch_size),
                  PyRange(max_width, patch_size))

\* the offsets save_raster_patches visits
PatchOffsets ==
    /\ Len(last.args) = 4
    /\ PureCall("save_raster_patches", "none",
                patch_offsets(last.args[1], last.args[2], last.args[3],
                              last.args[4]))

\* the offsets add_tiles_from_array visits
RootPatchOffsets ==
    /\ Len(last.args) = 4
    /\ PureCall("add_tiles_from_array", "none",
                root_patch_offsets(last.args[1], last.args[2], last.args[3]))

NextSweep ==
    \/ PatchOffsets
    \/ RootPatchOffsets

SpecSweep == InitSweep /\ [][NextSweep]_vars

\* C14: for every raster size, patch size p and stride s (H < p or W < p,
\* s < p and s > p included) the sweep visits exactly the offsets (i, j)
\* with i and j multiples of s, i + p <= H and j + p <= W, each once and in
\* row-major order; 100 x 100 gives 9 patches for p = s = 32 and 4 for
\* p = s = 50.
C14_SweepVisitsGrid ==
    last.op \in {"save_raster_patches", "add_tiles_from_array"} =>
        LET H == last.args[1]
            W == last.args[2]
            p == last.args[3]
            s == IF last.op = "save_raster_patches" THEN last.args[4] ELSE p
            visited == last.ret
        IN  /\ {visited[k] : k \in 1..Len(visited)}
                  = {o \in (0..H) \X (0..W) :
                        /\ o[1] % s = 0
                        /\ o[2] % s = 0
                        /\ o[1] + p <= H
                        /\ o[2] + p <= W}
            /\ \A k \in 1..Len(visited), l \in 1..Len(visited) :
                  k < l => \/ visited[k][1] < visited[l][1]
                           \/ /\ visited[k][1] = visited[l][1]
                              /\ visited[k][2] < visited[l][2]
            /\ (H = 100 /\ W = 100 /\ p = 32 /\ s = 32) => Len(visited) = 9
            /\ (H = 100 /\ W = 100 /\ p = 50 /\ s = 50) => Len(visited) = 4

\* a sweep with overlapping windows (s < p) over several rows and columns
\* that drops trailing pixels
C14_Witness ==
    /\ last.op = "save_raster_patches"
    /\ last.args = <<5, 4, 3, 2>>
    /\ last.ret = <<<<0, 0>>, <<2, 0>>>>

(***************************************************************************)
(* The tiles a bounding box selects                                        *)
(***************************************************************************)
\* coordinates in the units of the default CRS, and the rectangles
\* <<min_x, min_y, max_x, max_y>> over them
CoordInputs == {0, 10, 11, 20}
RectInputs ==
    {<<x1, y1, x2, y2>> : x1 \in CoordInputs, y1 \in CoordInputs,
                          x2 \in CoordInputs, y2 \in CoordInputs}
        \cap {r \in Seq(CoordInputs) : Len(r) = 4 => r[1] < r[3] /\ r[2] < r[4]}

\* a length of one unit of the default CRS in units of the other CRS
UnitsPerDegree == 2

\* rasterio.warp.transform_bounds(src_crs, dst_crs, left, bottom, right, top)
transform_bounds(src_crs, dst_crs, rect) ==
    IF src_crs = dst_crs THEN rect
    ELSE IF dst_crs = DefaultCrs
    THEN [k \in 1..4 |-> rect[k] \div UnitsPerDegree]
    ELSE [k \in 1..4 |-> rect[k] * UnitsPerDegree]

\* the bounds, in the CRS given, of the area that rect is in the default CRS
BoundsIn(crs, rect) == Bounds(crs, transform_bounds(DefaultCrs, crs, rect))

\* find_overlapping_tiles(bounds, crs) of src/tile_bank_repository.py over
\* the rows of table tile; crs is a CRS or "None"
root_find_overlapping_tiles(rows, bounds, crs) ==
    LET query == IF crs # "None" /\ crs # DefaultCrs
                 THEN Bounds(DefaultCrs,
                             transform_bounds(crs, DefaultCrs, bounds.rect))
                 ELSE bounds
    IN  [reported |-> {r.id : r \in
                          {r \in rows : /\ r.bounds.rect[3] >= query.rect[1]
                                        /\ r.bounds.rect[1] <= query.rect[3]
                                        /\ r.bounds.rect[4] >= query.rect[2]
                                        /\ r.bounds.rect[2] <= query.rect[4]}},
         query |-> query]

\* create_masks_from_raster of src/tile_bank_repository.py: the tiles
\* selected for a mask raster with the bounds given
root_create_masks_from_raster(rows, raster_bounds) ==
    root_find_overlapping_tiles(rows, raster_bounds, "None")

\* ST_AsGeoJSON(bounds) -> coordinates[0][k][axis] (k and axis from 0) of a
\* tile row whose bounds column was given box(...).wkt
geojson_coordinate(r, k, axis) == shapely_box(r.bounds.rect)[k + 1][axis + 1]

\* create_tile_masks_from_raster of src/repository/core/tile_bank.py: the
\* tiles the query selects for a mask raster with the bounds given
create_tile_masks_from_raster(rows, mask_bounds) ==
    [reported |-> {r.id : r \in
                      {r \in rows :
                          /\ geojson_coordinate(r, 0, 0) <= mask_bounds.rect[3]
                          /\ geojson_coordinate(r, 2, 0) >= mask_bounds.rect[1]
                          /\ geojson_coordinate(r, 0, 1) <= mask_bounds.rect[4]
                          /\ geojson_coordinate(r, 2, 1) >= mask_bounds.rect[2]}},
     query |-> mask_bounds]

\* tile rows: the tile (0, 0, 10, 10) of the default CRS, alone or with a
\* second tile
TileRow(id, crs, rect) == [id |-> id, bounds |-> BoundsIn(crs, rect)]

CatalogInputs ==
    {{TileRow(1, crs, rect)} : crs \in CrsInputs, rect \in RectInputs}
        \cup {{TileRow(1, DefaultCrs, <<0, 0, 10, 10>>), TileRow(2, crs, rect)} :
                 crs \in CrsInputs, rect \in RectInputs}

\* arguments <<rows of table tile, bounds>>
InitOverlap ==
    /\ IdleRepository
    /\ last \in {PureInput(<<rows, BoundsIn(crs, rect)>>) :
                    rows \in CatalogInputs, crs \in CrsInputs,
                    rect \in RectInputs}

\* add_single_tile_from_path of src/tile_bank_repository.py stores bounds
\* transformed to default_crs
RootCatalog(rows) == \A r \in rows : r.bounds.crs = DefaultCrs

\* find_overlapping_tiles(bounds, crs) with the CRS of the bounds
FindOverlappingTiles ==
    /\ Len(last.args) = 2
    /\ RootCatalog(last.args[1])
    /\ PureCall("find_overlapping_tiles", "none",
                root_find_overlapping_tiles(last.args[1], last.args[2],
                                            last.args[2].crs))

\* create_masks_from_raster for a mask raster with the bounds given
RootCreateMasksFromRaster ==
    /\ Len(last.args) = 2
    /\ RootCatalog(last.args[1])
    /\ PureCall("create_masks_from_raster", "none",
                root_create_masks_from_raster(last.args[1], last.args[2]))

\* create_tile_masks_from_raster for a mask raster with the bounds given
CreateTileMasksFromRaster ==
    /\ Len(last.args) = 2
    /\ PureCall("create_tile_masks_from_raster", "none",
                create_tile_masks_from_raster(last.args[1], last.args[2]))

NextOverlap ==
    \/ FindOverlappingTiles
    \/ RootCreateMasksFromRaster
    \/ CreateTileMasksFromRaster

SpecOverlap == InitOverlap /\ [][NextOverlap]_vars

OverlapOps ==
    {"find_overlapping_tiles", "create_masks_from_raster",
     "create_tile_masks_from_raster"}

\* C18: the overlap query reports exactly the tiles whose rectangle meets
\* the query rectangle in the closed sense (tile.maxX >= q.minX, tile.minX
\* <= q.maxX, tile.maxY >= q.minY, tile.minY <= q.maxY), in
\* find_overlapping_tiles and in the tile selection of
\* create_tile_masks_from_raster: the tile (0, 0, 10, 10) is reported for
\* the query (10, 10, 20, 20) and not for a query strictly beyond the
\* corner.
C18_ClosedIntervalOverlap ==
    last.op \in OverlapOps =>
        LET rows == last.args[1]
            q == last.ret.query.rect
        IN  /\ last.ret.reported
                  = {r.id : r \in {r \in rows :
                                     /\ r.bounds.rect[3] >= q[1]
                                     /\ r.bounds.rect[1] <= q[3]
                                     /\ r.bounds.rect[4] >= q[2]
                                     /\ r.bounds.rect[2] <= q[4]}}
            /\ (/\ TileRow(1, DefaultCrs, <<0, 0, 10, 10>>) \in rows
                /\ q = <<10, 10, 20, 20>>) => 1 \in last.ret.reported
            /\ (/\ TileRow(1, DefaultCrs, <<0, 0, 10, 10>>) \in rows
                /\ q = <<11, 11, 20, 20>>) => 1 \notin last.ret.reported

\* C19: the rectangle of the query and the stored rectangle of every tile
\* it is compared with are coordinates of the same CRS; the mask-creation
\* operations reproject the bounds of a mask raster whose CRS differs.
C19_SameCrsCompared ==
    last.op \in OverlapOps =>
        \A r \in last.args[1] : r.bounds.crs = last.ret.query.crs

(***************************************************************************)
(* parse_date_origin                                                       *)
(***************************************************************************)
ParseYears == {2023, 2024}
ParseMonths == 1..12
ParseDays == {1, 15, 28}

\* the values tried for one calendar date: the datetime, its YYYY-MM-DD
\* string, that string followed by a newline or a space, MM-DD-YYYY and
\* YYYY/MM/DD
DateForms(ymd) ==
    {PyDatetime(ymd[1], ymd[2], ymd[3]),
     PyStr(strftime(ymd)),
     PyStr(strftime(ymd) \o <<"\n">>),
     PyStr(strftime(ymd) \o <<" ">>),
     PyStr(TwoDigits(ymd[2]) \o <<"-">> \o TwoDigits(ymd[3]) \o <<"-">>
           \o SubSeq(strftime(ymd), 1, 4)),
     PyStr(SubSeq(strftime(ymd), 1, 4) \o <<"/">> \o TwoDigits(ymd[2])
           \o <<"/">> \o TwoDigits(ymd[3]))}

ParseInputs ==
    DateInputs \cup
    UNION {DateForms(<<y, m, d>>) :
               y \in ParseYears, m \in ParseMonths, d \in ParseDays}

\* arguments <<date_origin>>
InitDates ==
    /\ IdleRepository
    /\ last \in {PureInput(<<date_origin>>) : date_origin \in ParseInputs}

\* parse_date_origin of src/repository/core/tile_bank.py
ParseDateOrigin ==
    /\ Len(last.args) = 1
    /\ PureCall("parse_date_origin", parse_date_origin(last.args[1]).exc,
                parse_date_origin(last.args[1]).val)

\* parse_date_origin of src/tile_bank_repository.py
RootParseDateOrigin ==
    /\ Len(last.args) = 1
    /\ PureCall("tile_bank_repository.parse_date_origin",
                root_parse_date_origin(last.args[1]).exc,
                root_parse_date_origin(last.args[1]).val)

NextDates ==
    \/ ParseDateOrigin
    \/ RootParseDateOrigin

SpecDates == InitDates /\ [][NextDates]_vars

\* C20: parse_date_origin gives, for a datetime and for the YYYY-MM-DD
\* string of the same calendar date, the same canonical string YYYY-MM-DD,
\* and raises ValueError for every string that is not exactly of the form
\* YYYY-MM-DD.
C20_CanonicalDateString ==
    last.op \in {"parse_date_origin", "tile_bank_repository.parse_date_origin"} =>
        LET date_origin == last.args[1]
        IN  /\ date_origin.type = "datetime" =>
                  /\ last.exc = "none"
                  /\ last.ret = PyStr(strftime(date_origin.ymd))
            /\ (/\ date_origin.type = "str"
                /\ Len(date_origin.s) = 10
                /\ IsCalendarDate(date_origin.s)) =>
                  /\ last.exc = "none"
                  /\ last.ret = PyStr(strftime(DateOf(date_origin.s)))
            /\ (/\ date_origin.type = "str"
                /\ ~(Len(date_origin.s) = 10 /\ HasDateShape(date_origin.s))) =>
                  last.exc = "ValueError"

(***************************************************************************)
(* save_raster_patches_with_masks on a raster and a mask raster that may   *)
(* differ                                                                  *)
(***************************************************************************)
\* what rasterio.open gives for a raster file
RasterFile(shape, crs) == [height |-> shape[1], width |-> shape[2], crs |-> crs]

\* the mask rasters tried: those of the rasters, one narrower and one higher
MaskRasterInputs == RasterInputs \cup {<<2, 2>>, <<4, 4>>}

\* save_raster_patches_with_masks(raster_path, mask_path, ...): the two
\* rasters are opened and compared, then swept
\* (first: the raster and the mask are swept whether they agree or not)
save_raster_patches_with_masks_unchecked(s, src, mask_src, patch_size, stride, accept, satellite_name, date_origin, task, file_format, db_fail, locked) ==
    save_raster_patches_with_masks(
        s, patch_offsets(src.height, src.width, patch_size, stride),
        patch_size, accept, satellite_name, date_origin, task, file_format,
        db_fail, locked)

save_raster_patches_with_masks_of(s, src, mask_src, patch_size, stride, accept, satellite_name, date_origin, task, file_format, db_fail, locked) ==
    IF file_format \notin {"npy", "tif"} THEN Raise(s, "AssertionError")
    ELSE IF ~(src.height = mask_src.height /\ src.width = mask_src.width)
    THEN Raise(s, "AssertionError")
    ELSE IF ~(src.crs = mask_src.crs) THEN Raise(s, "AssertionError")
    ELSE save_raster_patches_with_masks(
             s, patch_offsets(src.height, src.width, patch_size, stride),
             patch_size, accept, satellite_name, date_origin, task,
             file_format, db_fail, locked)

SaveRasterPatchesWithMasksOf ==
    \E raster \in RasterInputs, mask_raster \in MaskRasterInputs,
       crs \in CrsInputs, mask_crs \in CrsInputs,
       patch_size \in PatchSizeInputs, stride \in StrideInputs,
       fmt \in FormatInputs, locked \in LockedInputs :
        LET src == RasterFile(raster, crs)
            mask_src == RasterFile(mask_raster, mask_crs)
            offsets == patch_offsets(raster[1], raster[2], patch_size, stride)
        IN  \E accept \in SUBSET Range(offsets) :
                /\ uuid + Cardinality(accept) <= MaxUuid + 1
                \* the format is asserted before the rasters are opened
                /\ fmt \notin {"npy", "tif"} => accept = {} /\ locked = {}
                /\ Call("save_raster_patches_with_masks",
                        [NoArgs EXCEPT !.fmt = fmt, !.src = src,
                                       !.mask_src = mask_src,
                                       !.accept = accept],
                        save_raster_patches_with_masks_of(
                            Cur, src, mask_src, patch_size, stride, accept,
                            "Sentinel-2", Date_2024_12_12, "ntp", fmt, {},
                            locked))

NextSources ==
    \/ SaveRasterPatchesWithMasksOf
    \/ AddSingleTileFromArray
    \/ SaveChanges
    \/ AbortChanges

SpecSources == Init /\ [][NextSources]_vars

\* C22: save_raster_patches_with_masks on a raster and a mask that differ
\* in height, in width or in CRS raises the assertion error before the
\* sweep: no tile and no mask, row or file, is written.
C22_MismatchedSourcesRejected ==
    [][(/\ last'.op = "save_raster_patches_with_masks"
        /\ last'.args.src # <<>>
        /\ \/ last'.args.src.height # last'.args.mask_src.height
           \/ last'.args.src.width # last'.args.mask_src.width
           \/ last'.args.src.crs # last'.args.mask_src.crs)
           => /\ last'.exc = "AssertionError"
              /\ last'.wrote = {}
              /\ last'.ret = <<>>
              /\ last'.masks = <<>>
              /\ UNCHANGED <<tile, tile_committed, mask, mask_committed,
                             files, created_files, in_transaction,
                             db_transaction, uuid, seq_tile_id,
                             seq_mask_id>>]_vars

\* rasters of equal size in different CRSs were given, with the validator
\* accepting a patch, to a catalog that holds a tile
C22_Witness ==
    /\ last.op = "save_raster_patches_with_masks"
    /\ last.args.src # <<>>
    /\ last.args.src.height = last.args.mask_src.height
    /\ last.args.src.width = last.args.mask_src.width
    /\ last.args.src.crs # last.args.mask_src.crs
    /\ last.args.accept # {}
    /\ last.args.fmt = "npy"
    /\ last.exc = "AssertionError"
    /\ tile # {}

(***************************************************************************)
(* The storage formats                                                     *)
(***************************************************************************)
ExtensionInputs == {"npy", "tif", "gif"}

\* save_array(array, output_path, transform, crs) called with a new file
\* name of the extension given
SaveArray ==
    \E ext \in ExtensionInputs, has_transform \in BOOLEAN :
        LET output_path == new_path(Cur)
            saved == save_array([Cur EXCEPT !.uuid = @ + 1], output_path, ext,
                                has_transform)
        IN  /\ uuid <= MaxUuid
            /\ Call("save_array", [NoArgs EXCEPT !.fmt = ext],
                    [Result(saved.s, saved.exc, <<>>)
                        EXCEPT !.wrote = saved.s.files \ files])

NextFormats ==
    \/ SaveArray
    \/ AddSingleTileFromArray
    \/ SaveRasterPatches
    \/ SaveRasterPatchesWithMasks
    \/ SaveChanges
    \/ AbortChanges

SpecFormats == Init /\ [][NextFormats]_vars

\* C24: a request for a storage format other than npy and tif raises
\* (AssertionError in the repository operations, ValueError in save_array)
\* and creates no file and no row.
C24_UnsupportedFormatStoresNothing ==
    [][(/\ last'.op \in {"save_array", "add_single_tile_from_array",
                         "save_raster_patches",
                         "save_raster_patches_with_masks"}
        /\ last'.args.fmt \notin {"npy", "tif"})
           => /\ last'.exc \in {"AssertionError", "ValueError"}
              /\ last'.wrote = {}
              /\ last'.ret = <<>>
              /\ UNCHANGED <<tile, tile_committed, mask, mask_committed,
                             files, created_files, seq_tile_id,
                             seq_mask_id>>]_vars

\* save_array was asked for a .gif file
C24_Witness ==
    /\ last.op = "save_array"
    /\ last.args.fmt = "gif"
    /\ last.exc = "ValueError"
    /\ GenPath(1) \notin files

(***************************************************************************)
(* The spatial information of a tile made from an array                    *)
(***************************************************************************)
Abs(x) == IF x < 0 THEN -x ELSE x

\* rasterio.transform.array_bounds(height, width, transform):
\* (west, south, east, north)
array_bounds(height, width, transform) ==
    <<transform[3], affine_apply(transform, width, height)[2],
      affine_apply(transform, width, height)[1], transform[6]>>

\* get_array_spatial_info(array, crs, transform): [exc, val]
get_array_spatial_info(array, crs, transform) ==
    [exc |-> "none",
     val |-> [crs |-> crs,
              bounds |-> shapely_box(array_bounds(array[Len(array) - 1],
                                                  array[Len(array)],
                                                  transform)),
              pixel_size_x |-> transform[1],
              pixel_size_y |-> Abs(transform[5]),
              width |-> array[Len(array)],
              height |-> array[Len(array) - 1]]]

\* transforms <<a, b, c, d, e, f>> without rotation: pixel width a of 2 or
\* 0, pixel height e of -1 or 0
TransformInputs == {<<a, 0, 0, 0, e, 2>> : a \in {0, 2}, e \in {-1, 0}}

\* add_single_tile_from_array(array, satellite_name, date_origin, crs,
\* transform, exists_ok, file_format) with its crs and transform
add_single_tile_from_array_at(s, array, satellite_name, date_origin, crs, transform, file_format, db_err, locked) ==
    IF ~is_square_3d(array) THEN Raise(s, "AssertionError")
    ELSE IF file_format \notin {"npy", "tif"} THEN Raise(s, "AssertionError")
    ELSE IF get_array_spatial_info(array, crs, transform).exc # "none"
    THEN Raise(s, get_array_spatial_info(array, crs, transform).exc)
    ELSE add_single_tile_from_array(s, array, satellite_name, date_origin,
                                    file_format, db_err, locked)

AddSingleTileFromArrayAt ==
    \E array \in ShapeInputs, crs \in CrsInputs,
       transform \in TransformInputs, fmt \in FormatInputs,
       locked \in LockedInputs :
        /\ uuid <= MaxUuid
        /\ Call("add_single_tile_from_array",
                [NoArgs EXCEPT !.shape = array, !.sat = "Sentinel-2",
                               !.date = Date_2024_12_12, !.fmt = fmt,
                               !.transform = transform],
                add_single_tile_from_array_at(Cur, array, "Sentinel-2",
                                              Date_2024_12_12, crs, transform,
                                              fmt, FALSE, locked))

NextGeometry ==
    \/ AddSingleTileFromArrayAt
    \/ SaveChanges
    \/ AbortChanges

SpecGeometry == Init /\ [][NextGeometry]_vars

\* C25: a tile add whose transform has a pixel width or a pixel height of
\* zero raises, and creates no tile row and no file.
C25_DegenerateTransformRejected ==
    [][(/\ last'.op = "add_single_tile_from_array"
        /\ last'.args.transform # <<>>
        /\ \/ last'.args.transform[1] = 0
           \/ last'.args.transform[5] = 0)
           => /\ last'.exc # "none"
              /\ last'.wrote = {}
              /\ UNCHANGED <<tile, files>>]_vars

(***************************************************************************)
(* Masks made for the tiles a mask raster covers                           *)
(* (create_tile_masks_from_raster of src/repository/core/tile_bank.py)     *)
(***************************************************************************)
\* the rows given, by id
RECURSIVE rows_by_id(_)
rows_by_id(rows) ==
    IF rows = {} THEN <<>>
    ELSE LET first == CHOOSE r \in rows : \A o \in rows : r.id <= o.id
         IN  <<first>> \o rows_by_id(rows \ {first})

\* the row of INSERT INTO mask ... RETURNING * for the tile row given, with
\* the bounds given (ST_GeomFromGeoJSON of mapping(box(*bounds)))
mask_row(s, mask_path, tile_row, task, bounds) ==
    [id |-> s.seq_mask_id, path |-> mask_path, satellite_id |-> 0,
     tile_id |-> tile_row.id, task |-> task,
     date_origin |-> tile_row.date_origin, source |-> NoPath,
     bounds |-> Bounds("", ST_Envelope(shapely_box(bounds.rect)))]

\* the mask file is written and tracked, and the row is inserted by sql():
\* the statement is committed at once unless a transaction is open
insert_mask(acc, s1, row) ==
    [acc EXCEPT !.s = [s1 EXCEPT !.mask = @ \cup {row},
                                 !.mask_committed =
                                     IF s1.db_transaction THEN @
                                     ELSE @ \cup {row},
                                 !.seq_mask_id = @ + 1],
                !.wrote = @ \cup {row.path},
                !.ret = @ \o <<row>>]

\* one turn of the loop of create_tile_masks_from_raster
\* (first: the mask row is given the bounds of the mask raster)
create_tile_mask_with_raster_bounds(acc, tile_row, mask_bounds, task, file_format, read_fails) ==
    insert_mask(acc,
                track_file(save_array([acc.s EXCEPT !.uuid = @ + 1],
                                      new_path(acc.s), file_format,
                                      file_format = "tif").s,
                           new_path(acc.s)),
                mask_row(acc.s, new_path(acc.s), tile_row, task, mask_bounds))

create_tile_mask(acc, tile_row, mask_bounds, task, file_format, read_fails) ==
    LET mask_path == new_path(acc.s)
        s1 == track_file(save_array([acc.s EXCEPT !.uuid = @ + 1], mask_path,
                                    file_format, file_format = "tif").s,
                         mask_path)
    IN  \* rasterio.open(tile['path']) raises for a missing file and for a
        \* file written by np.save; mask_src.read may raise
        IF \/ tile_row.path \notin acc.s.files
           \/ tile_row.path[1] = "gen"
           \/ read_fails
        THEN acc
        \* the INSERT raises for a task that is not of mask_task_type
        ELSE IF task \notin MaskTaskType
        THEN [acc EXCEPT !.s = s1, !.wrote = @ \cup {mask_path},
                         !.mask_failed = @ \cup {tile_row}]
        ELSE insert_mask(acc, s1,
                         mask_row(acc.s, mask_path, tile_row, task,
                                  rasterio_open(tile_row.path)))

RECURSIVE create_tile_masks(_, _, _, _, _, _)
create_tile_masks(acc, tiles, mask_bounds, task, file_format, read_fails) ==
    IF tiles = <<>> THEN acc
    ELSE create_tile_masks(create_tile_mask(acc, Head(tiles), mask_bounds,
                                            task, file_format, read_fails),
                           Tail(tiles), mask_bounds, task, file_format,
                           read_fails)

\* the rows whose bounds were taken from a raster file (the bounds of a tile
\* made from an array are those of the transform given with it)
georeferenced(rows) == {r \in rows : r.bounds # NoBounds}

\* create_tile_masks_from_raster(mask_path, task, mask_type, file_format)
\* for a mask raster with the bounds given
create_tile_masks_from_raster_of(s, mask_bounds, task, file_format, read_fails) ==
    IF file_format \notin {"npy", "tif"} THEN Raise(s, "AssertionError")
    ELSE create_tile_masks(
             Return(s, <<>>),
             rows_by_id({r \in georeferenced(s.tile) :
                            r.id \in create_tile_masks_from_raster(
                                         georeferenced(s.tile),
                                         mask_bounds).reported}),
             mask_bounds, task, file_format, read_fails)

\* the bounds of the mask rasters tried
MaskBoundsInputs == {<<0, 0, 20, 20>>, <<10, 10, 20, 20>>}

CreateTileMasksFromRasterOf ==
    \E rect \in MaskBoundsInputs, task \in TaskInputs,
       fmt \in FormatInputs, read_fails \in BOOLEAN :
        \* a statement that fails inside an open transaction is left out
        /\ task \notin MaskTaskType => ~db_transaction
        /\ Call("create_tile_masks_from_raster",
                [NoArgs EXCEPT !.task = task,
                               !.mask_src = Bounds(DefaultCrs, rect)],
                create_tile_masks_from_raster_of(Cur,
                                                 Bounds(DefaultCrs, rect),
                                                 task, fmt, read_fails))

NextMasks ==
    \/ CreateTileMasksFromRasterOf
    \/ AddSingleTileFromPath
    \/ AddSingleTileFromArray
    \/ SaveChanges
    \/ AbortChanges

SpecMasks == Init /\ [][NextMasks]_vars

\* create_mask_for_tile(tile_id, mask_raster_path, task, mask_type,
\* date_origin) of src/tile_bank_repository.py for a mask raster with the
\* bounds given: the mask row is given the bounds of the tile row
root_insert_mask(s1, mask_save_path, tile_row, task, date_origin, db_err) ==
    LET r == root_add_record(
                 s1, "mask",
                 [MaskData(task, mask_save_path, tile_row.id,
                           root_date_column(date_origin), "str")
                     EXCEPT !.geom = tile_row.bounds],
                 db_err)
    IN  IF r.exc # "none"
        THEN [r EXCEPT !.s = [r.s EXCEPT !.files = @ \ {mask_save_path}],
                       !.wrote = {mask_save_path}]
        ELSE [r EXCEPT !.wrote = {mask_save_path}]

root_save_mask(s, tile_row, task, date_origin, db_err) ==
    LET mask_save_path == new_path(s)
        s1 == [s EXCEPT !.uuid = @ + 1, !.files = @ \cup {mask_save_path}]
        date == IF date_origin.type = "NoneType"
                THEN [exc |-> "none", val |-> date_origin]
                ELSE root_parse_date_origin(date_origin)
    IN  IF date.exc # "none"
        THEN [Raise(s1, date.exc) EXCEPT !.wrote = {mask_save_path}]
        ELSE root_insert_mask(s1, mask_save_path, tile_row, task, date.val,
                              db_err)

root_create_mask_for_tile(s, tile_id, mask_bounds, task, date_origin, db_err) ==
    IF ~\E r \in s.tile : r.id = tile_id THEN Raise(s, "ValueError")
    ELSE
    LET tile_row == CHOOSE r \in s.tile : r.id = tile_id
        tile_bounds == transform_bounds(tile_row.bounds.crs, mask_bounds.crs,
                                        tile_row.bounds.rect)
    IN  \* tile_box.intersects(mask_box)
        IF ~(/\ tile_bounds[1] <= mask_bounds.rect[3]
             /\ mask_bounds.rect[1] <= tile_bounds[3]
             /\ tile_bounds[2] <= mask_bounds.rect[4]
             /\ mask_bounds.rect[2] <= tile_bounds[4])
        THEN Raise(s, "ValueError")
        ELSE root_save_mask(s, tile_row, task, date_origin, db_err)

RootCreateMaskForTile ==
    \E tile_id \in 1..MaxSeq, rect \in MaskBoundsInputs,
       crs \in CrsInputs, task \in TaskInputs,
       date \in RootDateInputs \cup {PyNone}, db_err \in BOOLEAN :
        /\ created_files = {}
        /\ Call("create_mask_for_tile",
                [NoArgs EXCEPT !.task = task, !.date = date,
                               !.mask_src = BoundsIn(crs, rect)],
                root_create_mask_for_tile(Cur, tile_id, BoundsIn(crs, rect),
                                          task, date, db_err))

NextRootMasks ==
    \/ RootCreateMaskForTile
    \/ RootAddSingleTileFromPath
    \/ RootSaveChanges
    \/ RootAbortChanges

SpecRootMasks == Init /\ [][NextRootMasks]_vars

\* the rows of table mask reference each one row of table tile, with the
\* same bounds
MasksUnderTiles(masks, tiles) ==
    \A m \in masks :
        /\ Cardinality({r \in tiles : r.id = m.tile_id}) = 1
        /\ \A r \in tiles : r.id = m.tile_id => m.bounds.rect = r.bounds.rect

RaiseWith(s, exc, message) == Result(s, exc, <<message>>)

\* DESCRIBE table, the column names (tables of src/repository/db/init.py)
get_table_schema(table) ==
    IF table = "tile"
    THEN {"id", "path", "satellite_id", "date_created", "date_origin", "crs",
          "bounds", "pixel_size_x", "pixel_size_y", "width", "height"}
    ELSE IF table = "mask"
    THEN {"id", "tile_id", "task", "path", "date_created", "date_origin",
          "bounds"}
    ELSE IF table = "satellite"
    THEN {"id", "name", "resolution_cm", "type", "date_created"}
    ELSE {"id", "date_created"}

\* the rows SELECT * FROM table reads on the connection
select_all(s, table) ==
    IF table = "tile" THEN s.tile
    ELSE IF table = "mask" THEN s.mask
    ELSE IF table = "satellite"
    THEN {[id |-> r[2], name |-> r[1]] : r \in SeededSatellites}
    ELSE {}

\* the rows of a table that satisfy every criterion <<column, value>>
matching(rows, criteria) ==
    {r \in rows : \A i \in 1..Len(criteria) : r[criteria[i][1]] = criteria[i][2]}

\* the text after WHERE: the conditions k = v with ", " between them, as
\* the number of its separators
where_separators(criteria) ==
    IF Len(criteria) = 0 THEN 0 ELSE Len(criteria) - 1

\* the engine parses WHERE followed by one condition; it has no "," there,
\* and no empty condition
where_parses(criteria) ==
    Len(criteria) > 0 /\ where_separators(criteria) = 0

\* check_table(BaseRepository.get_by_id)
get_by_id(s, table, id) ==
    LET record == {r \in select_all(s, table) : r.id = id}
    IN  IF table \notin Tables THEN RaiseWith(s, "ValueError", "Table not found")
        ELSE IF record = {}
        THEN RaiseWith(s, "ValueError", "Record not found")
        ELSE Return(s, <<CHOOSE r \in record : TRUE>>)

\* check_table(BaseRepository.find)
find(s, table, criteria) ==
    LET result == matching(select_all(s, table), criteria)
    IN  IF table \notin Tables THEN RaiseWith(s, "ValueError", "Table not found")
        ELSE IF \E i \in 1..Len(criteria) :
                    criteria[i][1] \notin get_table_schema(table)
        THEN RaiseWith(s, "ValueError", "Column not found")
        ELSE IF ~where_parses(criteria)
        THEN RaiseWith(s, "ParserException", "syntax error")
        ELSE IF result = {}
        THEN RaiseWith(s, "ValueError", "No records found")
        ELSE IF Cardinality(result) > 1
        THEN RaiseWith(s, "ValueError", "Multiple records found")
        ELSE Return(s, <<CHOOSE r \in result : TRUE>>)

\* the tables looked into; "patch" is no table of the catalog
LookupTables == {"tile", "satellite", "patch"}

\* the criteria tried: by id, by satellite, by both, by a column the table
\* does not have
CriteriaInputs(table) ==
    {<<<<"id", 1>>>>, <<<<"id", MaxSeq + 1>>>>, <<<<"satellite_id", 1>>>>,
     <<<<"satellite_id", 1>>, <<"id", 1>>>>,
     <<<<"satellite_id", 2>>, <<"id", 1>>>>,
     <<<<"tile_id", 1>>>>}

GetById ==
    \E table \in LookupTables, id \in {1, 2, MaxSeq + 1} :
        /\ in_transaction \in BOOLEAN
        /\ Call("get_by_id", [NoArgs EXCEPT !.table = table, !.id = id],
                get_by_id(Cur, table, id))

Find ==
    \E table \in LookupTables :
        \E criteria \in CriteriaInputs(table) :
            /\ in_transaction \in BOOLEAN
            /\ Call("find",
                    [NoArgs EXCEPT !.table = table, !.criteria = criteria],
                    find(Cur, table, criteria))

NextLookups ==
    \/ GetById
    \/ Find
    \/ AddSingleTileFromArray
    \/ AddSingleTileFromPath
    \/ SaveChanges
    \/ AbortChanges

SpecLookups == Init /\ [][NextLookups]_vars

\* the criteria name columns of an existing table
WellFormed(table, criteria) ==
    /\ table \in Tables
    /\ \A i \in 1..Len(criteria) : criteria[i][1] \in get_table_schema(table)

\* C28: find returns exactly one row or raises: with no matching row it
\* raises the record-not-found error, with several matching rows the
\* ambiguous-record error; get_by_id raises record-not-found when no row has
\* the id; no lookup changes the catalog, the files or the transaction.
C28_LookupOneRowOrRaise ==
    [][/\ last'.op \in {"find", "get_by_id"} => UNCHANGED repo_vars
       /\ (/\ last'.op = "get_by_id"
           /\ last'.args.table \in Tables) =>
              LET rows == {r \in select_all(Cur, last'.args.table) :
                               r.id = last'.args.id}
              IN  IF rows = {}
                  THEN /\ last'.exc = "ValueError"
                       /\ last'.ret = <<"Record not found">>
                  ELSE /\ last'.exc = "none"
                       /\ Len(last'.ret) = 1
                       /\ last'.ret[1] \in rows
       /\ (/\ last'.op = "find"
           /\ WellFormed(last'.args.table, last'.args.criteria)) =>
              LET rows == matching(select_all(Cur, last'.args.table),
                                   last'.args.criteria)
              IN  /\ last'.exc = "none" =>
                         /\ Len(last'.ret) = 1
                         /\ rows = {last'.ret[1]}
                  /\ rows = {} =>
                         /\ last'.exc = "ValueError"
                         /\ last'.ret = <<"No records found">>
                  /\ Cardinality(rows) > 1 =>
                         /\ last'.exc = "ValueError"
                         /\ last'.ret = <<"Multiple records found">>]_vars

(***************************************************************************)
(* sample_patches (src/utils/sampling.py)                                  *)
(***************************************************************************)
\* the samplers tried: one that takes every patch, one that takes none, one
\* that refuses the patch at (0, 0), one that takes the patches of the
\* first column
SamplerInputs == {"every", "no", "not_first", "first_column"}

\* sampler(patch) for the patch at offset o
sampler_accepts(sampler, o) ==
    IF sampler = "every" THEN TRUE
    ELSE IF sampler = "no" THEN FALSE
    ELSE IF sampler = "not_first" THEN o # <<0, 0>>
    ELSE o[2] = 0

\* the greatest max_patches tried
MaxSampled == 3

\* arguments <<height, width, patch_size, max_patches, sampler>>
SamplingInputs ==
    (1..MaxSide) \X (1..MaxSide) \X (1..MaxPatch) \X (0..MaxSampled)
        \X SamplerInputs

\* the two loops of sample_patches over the offsets left, indicies the
\* list so far: the length is compared with max_patches after each patch
RECURSIVE sample_loop(_, _, _, _)
sample_loop(indicies, offsets, max_patches, sampler) ==
    IF offsets = <<>> THEN indicies
    ELSE LET appended == IF sampler_accepts(sampler, Head(offsets))
                         THEN Append(indicies, Head(offsets))
                         ELSE indicies
         IN  IF Len(appended) >= max_patches THEN appended
             ELSE sample_loop(appended, Tail(offsets), max_patches, sampler)

\* sample_patches(data, patch_size, max_patches, sampler) for data whose
\* last two axes are height and width
sample_patches(height, width, patch_size, max_patches, sampler) ==
    sample_loop(<<>>, root_patch_offsets(height, width, patch_size),
                max_patches, sampler)

InitSampling ==
    /\ IdleRepository
    /\ last \in {PureInput(a) : a \in SamplingInputs}

SamplePatches ==
    /\ Len(last.args) = 5
    /\ PureCall("sample_patches", "none",
                sample_patches(last.args[1], last.args[2], last.args[3],
                               last.args[4], last.args[5]))

NextSampling ==
    \/ SamplePatches

SpecSampling == InitSampling /\ [][NextSampling]_vars

\* C34: sample_patches returns at most max_patches offsets, for every
\* max_patches >= 0, and they are the first offsets the sampler accepts in
\* the row-major order of the grid of patches laid side by side.
C34_AtMostMaxPatches ==
    last.op = "sample_patches" =>
        LET grid == root_patch_offsets(last.args[1], last.args[2],
                                       last.args[3])
            Accepted(o) == sampler_accepts(last.args[5], o)
            accepted == SelectSeq(grid, Accepted)
            n == IF Len(accepted) < last.args[4] THEN Len(accepted)
                 ELSE last.args[4]
        IN  /\ Len(last.ret) <= last.args[4]
            /\ last.ret = SubSeq(accepted, 1, n)

(***************************************************************************)
(* calculate_patch_bounds (src/tilebank/spatial/bounds.py), in binary      *)
(* floating point: round to nearest, ties to even, as Python's float, with *)
(* a significand of FloatBits bits instead of 53 and the multiples of      *)
(* 2^-FloatScale as the finest values                                      *)
(***************************************************************************)
FloatBits == 4
FloatScale == 6

\* 1.0 in units of 2^-FloatScale; a float is the integer number of units
FloatOne == 2 ^ FloatScale

\* the least k with magnitude / (den * 2^k) below 2^FloatBits
RECURSIVE float_exponent(_, _, _)
float_exponent(magnitude, den, k) ==
    IF magnitude \div (den * 2 ^ k) < 2 ^ FloatBits THEN k
    ELSE float_exponent(magnitude, den, k + 1)

\* the float nearest to num / den units, ties to the even significand
float_round(num, den) ==
    LET magnitude == IF num < 0 THEN -num ELSE num
        k == float_exponent(magnitude, den, 0)
        ulp == den * 2 ^ k
        q == magnitude \div ulp
        r == magnitude % ulp
        significand == IF 2 * r > ulp \/ (2 * r = ulp /\ q % 2 = 1)
                       THEN q + 1 ELSE q
    IN  (IF num < 0 THEN -1 ELSE 1) * significand * 2 ^ k

\* x + y, x - y, x * n and x / n for floats x, y and an int n
float_add(x, y) == float_round(x + y, 1)
float_sub(x, y) == float_round(x - y, 1)
float_mul(x, n) == float_round(x * n, 1)
float_div(x, n) == float_round(x, n)

\* Affine.from_gdal(c, a, b, f, d, e) as <<a, b, c, d, e, f>>
from_gdal(c, a, b, f, d, e) == <<a, b, c, d, e, f>>

\* transform * Affine.translation(xoff, yoff)
translated(transform, xoff, yoff) ==
    <<transform[1], transform[2],
      float_add(float_add(float_mul(transform[1], xoff),
                          float_mul(transform[2], yoff)), transform[3]),
      transform[4], transform[5],
      float_add(float_add(float_mul(transform[4], xoff),
                          float_mul(transform[5], yoff)), transform[6])>>

\* rasterio.transform.array_bounds(height, width, transform):
\* <<west, south, east, north>>
float_array_bounds(height, width, transform) ==
    <<transform[3],
      float_add(float_add(float_mul(transform[4], width),
                          float_mul(transform[5], height)), transform[6]),
      float_add(float_add(float_mul(transform[1], width),
                          float_mul(transform[2], height)), transform[3]),
      transform[6]>>

\* calculate_patch_bounds(full_bounds, full_shape, patch_coords, patch_size)
calculate_patch_bounds(full_bounds, full_shape, patch_coords, patch_size) ==
    LET min_lon == full_bounds[1]
        min_lat == full_bounds[2]
        max_lon == full_bounds[3]
        max_lat == full_bounds[4]
        full_height == full_shape[1]
        full_width == full_shape[2]
        transform ==
            from_gdal(min_lon,
                      float_div(float_sub(max_lon, min_lon), full_width), 0,
                      max_lat, 0,
                      -float_div(float_sub(max_lat, min_lat), full_height))
    IN  float_array_bounds(patch_size, patch_size,
                           translated(transform, patch_coords[2],
                                      patch_coords[1]))

\* full bounds tried: whole degrees from 0 to 3, min below max
FullBoundsInputs ==
    {<<x * FloatOne, y * FloatOne, (x + w) * FloatOne, (y + h) * FloatOne>> :
        x \in {0, 1}, y \in {0, 1}, w \in {1, 2}, h \in {1, 2}}

\* arguments <<full_bounds, full_shape, patch_coords, patch_size>>, the
\* patch starting inside the array
PatchBoundsInputs ==
    {<<b, <<h, w>>, <<i, j>>, size>> :
        b \in FullBoundsInputs, h \in {1, 3, MaxSide}, w \in {2, 3, MaxSide},
        i \in {0, 1, 2}, j \in {0, 1, 3}, size \in 1..MaxPatch}

InitPatchBounds ==
    /\ IdleRepository
    /\ last \in {PureInput(a) : a \in PatchBoundsInputs}

CalculatePatchBounds ==
    /\ Len(last.args) = 4
    /\ PureCall("calculate_patch_bounds", "none",
                calculate_patch_bounds(last.args[1], last.args[2],
                                       last.args[3], last.args[4]))

NextPatchBounds ==
    \/ CalculatePatchBounds

SpecPatchBounds == InitPatchBounds /\ [][NextPatchBounds]_vars

\* C35: for a patch inside the array (i + patch_size <= height and
\* j + patch_size <= width) calculate_patch_bounds returns a rectangle
\* <<min_lon, min_lat, max_lon, max_lat>> inside the full bounds with
\* min < max on both axes, and the patch at (0, 0) has the min_lon and the
\* max_lat of the full bounds.
C35_PatchBoundsInside ==
    (/\ last.op = "calculate_patch_bounds"
     /\ last.args[3][1] + last.args[4] <= last.args[2][1]
     /\ last.args[3][2] + last.args[4] <= last.args[2][2]) =>
        /\ last.args[1][1] <= last.ret[1]
        /\ last.ret[3] <= last.args[1][3]
        /\ last.args[1][2] <= last.ret[2]
        /\ last.ret[4] <= last.args[1][4]
        /\ last.ret[1] < last.ret[3]
        /\ last.ret[2] < last.ret[4]
        /\ last.args[3] = <<0, 0>> =>
               /\ last.ret[1] = last.args[1][1]
               /\ last.ret[4] = last.args[1][4]

(***************************************************************************)
(* The transactional operations of BaseRepository                          *)
(* (src/repository/core/base.py), called on the repository directly        *)
(***************************************************************************)
\* the except branch of transactional: abort_changes(), then raise e; ABORT
\* raises in its place when the connection has no transaction open
abort_and_raise(s1, err, locked) ==
    Raise(abort_changes(s1, locked),
          IF s1.db_transaction THEN err ELSE "TransactionException")

\* the rows with the date_origin of the row with the id given replaced
with_date_origin(rows, id, date_origin) ==
    {IF r.id = id THEN [r EXCEPT !.date_origin = date_origin.s] ELSE r :
        r \in rows}

\* transactional(check_table(BaseRepository.update_record)) for a table of
\* tile rows and data = {"date_origin": date_origin}
update_record(s, table, id, date_origin, locked) ==
    LET s1 == begin_transaction(s)
        err == IF table \notin Tables THEN "ValueError"
               ELSE IF ~IsCalendarDate(date_origin.s)
               THEN "ConversionException"
               ELSE IF ~\E r \in s1.tile : r.id = id THEN "ValueError"
               ELSE "none"
    IN  IF ~s.in_transaction /\ s.db_transaction
        THEN Raise(s, "TransactionException")
        ELSE IF err # "none" THEN abort_and_raise(s1, err, locked)
        ELSE Return([s1 EXCEPT
                        !.tile = with_date_origin(@, id, date_origin),
                        !.tile_committed =
                            IF s1.db_transaction THEN @
                            ELSE with_date_origin(@, id, date_origin)],
                    <<CHOOSE r \in with_date_origin(s1.tile, id, date_origin) :
                          r.id = id>>)

\* transactional(check_table(BaseRepository.delete_record)) for a table of
\* tile rows: a row that a mask or a timeseries link refers to stays
delete_record(s, table, id, locked) ==
    LET s1 == begin_transaction(s)
        referred ==
            \/ \E r \in s1.mask : r.tile_id = id
            \/ \E k \in 1..Len(s1.timeseries_tile_link) :
                   s1.timeseries_tile_link[k].tile_id = id
        err == IF table \notin Tables THEN "ValueError"
               ELSE IF referred THEN "ConstraintException"
               ELSE "none"
    IN  IF ~s.in_transaction /\ s.db_transaction
        THEN Raise(s, "TransactionException")
        ELSE IF err # "none" THEN abort_and_raise(s1, err, locked)
        ELSE Return([s1 EXCEPT
                        !.tile = {r \in @ : r.id # id},
                        !.tile_committed =
                            IF s1.db_transaction THEN @
                            ELSE {r \in @ : r.id # id}], <<>>)

\* transactional(BaseRepository.execute_query) for SELECT * FROM table: the
\* ids of the rows, or CatalogException for a table that does not exist
execute_query(s, table, locked) ==
    LET s1 == begin_transaction(s)
    IN  IF ~s.in_transaction /\ s.db_transaction
        THEN Raise(s, "TransactionException")
        ELSE IF table \notin Tables
        THEN abort_and_raise(s1, "CatalogException", locked)
        ELSE Return(s1, <<{r.id : r \in select_all(s1, table)}>>)

\* "2025-01-01"
Date_2025_01_01 == PyStr(strftime(<<2025, 1, 1>>))

AddRecord ==
    \E table \in {"tile", "patch"}, n \in 1..MaxUuid,
       date \in {Date_2024_12_12, Date_2024_13_45} :
        /\ in_transaction \in BOOLEAN
        /\ Call("add_record",
                [NoArgs EXCEPT !.table = table, !.path = SrcPath(n),
                               !.date = date],
                add_record(Cur, table, TileData(SrcPath(n), 1, date, NoPath),
                           FALSE, {}))

UpdateRecord ==
    \E table \in {"tile", "patch"}, id \in {1, MaxSeq + 1},
       date \in {Date_2025_01_01, Date_2024_13_45} :
        /\ in_transaction \in BOOLEAN
        /\ Call("update_record",
                [NoArgs EXCEPT !.table = table, !.id = id, !.date = date],
                update_record(Cur, table, id, date, {}))

DeleteRecord ==
    \E table \in {"tile", "patch"}, id \in {1, MaxSeq + 1} :
        /\ in_transaction \in BOOLEAN
        /\ Call("delete_record", [NoArgs EXCEPT !.table = table, !.id = id],
                delete_record(Cur, table, id, {}))

ExecuteQuery ==
    \E table \in {"tile", "patch"} :
        /\ in_transaction \in BOOLEAN
        /\ Call("execute_query", [NoArgs EXCEPT !.table = table],
                execute_query(Cur, table, {}))

NextTransactional ==
    \/ AddRecord
    \/ UpdateRecord
    \/ DeleteRecord
    \/ ExecuteQuery
    \/ SaveChanges
    \/ AbortChanges
    \/ Sql

SpecTransactional == Init /\ [][NextTransactional]_vars

\* the same without BaseRepository.sql
NextCrud ==
    \/ AddRecord
    \/ UpdateRecord
    \/ DeleteRecord
    \/ ExecuteQuery
    \/ SaveChanges
    \/ AbortChanges

SpecCrud == Init /\ [][NextCrud]_vars

\* C36: after add_record, update_record, delete_record or execute_query
\* raises, the catalog is as it was at the last save_changes (or at opening):
\* every uncommitted row of the open transaction is discarded, and
\* _in_transaction is false.
C36_RaiseRollsBack ==
    [][(/\ last'.op \in {"add_record", "update_record", "delete_record",
                         "execute_query"}
        /\ last'.exc # "none") =>
           /\ tile' = tile_committed'
           /\ mask' = mask_committed'
           /\ ~in_transaction']_vars

(***************************************************************************)
(* add_tiles_from_array (src/tile_bank_repository.py)                      *)
(***************************************************************************)
\* the body of the two loops for the offsets still to visit; accept: the
\* offsets whose patch the validator accepts, db_fail: the offsets at which
\* the engine fails on the INSERT
RECURSIVE root_add_patches(_, _, _, _, _, _)
root_add_patches(acc, offsets, accept, satellite_name, date_origin, db_fail) ==
    IF offsets = <<>> \/ acc.exc # "none" THEN acc
    ELSE
    LET o == Head(offsets)
        npy_path == new_path(acc.s)
        \* np.save(npy_path, patch)
        s1 == [acc.s EXCEPT !.uuid = @ + 1, !.files = @ \cup {npy_path}]
        satellite == find_satellite(satellite_name)
        date == root_parse_date_origin(date_origin)
        r == root_add_record(s1, "tile",
                             TileData(npy_path, satellite.id,
                                      PyStr(strftime(date.val.ymd)), NoPath),
                             o \in db_fail)
        \* find(...)['id'].values[0], parse_date_origin(...).strftime(...)
        before == IF satellite.exc # "none" THEN "IndexError"
                  ELSE IF date.exc # "none" THEN date.exc
                  ELSE IF date.val.type # "datetime" THEN "AttributeError"
                  ELSE "none"
        \* the except branch: os.remove(npy_path), raise e
        next == IF o \notin accept THEN acc
                ELSE IF before # "none"
                THEN [acc EXCEPT !.s = [s1 EXCEPT !.files = @ \ {npy_path}],
                                 !.exc = before, !.ret = <<>>,
                                 !.wrote = @ \cup {npy_path}]
                ELSE IF r.exc # "none"
                THEN [acc EXCEPT !.s = [r.s EXCEPT !.files = @ \ {npy_path}],
                                 !.exc = r.exc, !.ret = <<>>,
                                 !.wrote = @ \cup {npy_path},
                                 !.insert_failed = TRUE]
                ELSE [acc EXCEPT !.s = r.s, !.wrote = @ \cup {npy_path},
                                 !.ret = @ \o r.ret]
    IN  root_add_patches(next, Tail(offsets), accept, satellite_name,
                         date_origin, db_fail)

\* add_tiles_from_array(data, satellite_name, date_origin, bounds,
\* source_crs, patch_size, validator); data is given by its last two axes
root_add_tiles_from_array(s, full_height, full_width, patch_size, accept, satellite_name, date_origin, db_fail) ==
    root_add_patches(Return(s, <<>>),
                     root_patch_offsets(full_height, full_width, patch_size),
                     accept, satellite_name, date_origin, db_fail)

\* arrays of one patch and of two patches side by side
ArrayTilesInputs == {<<2, 2, 2>>, <<2, 5, 2>>}

RootAddTilesFromArray ==
    \E a \in ArrayTilesInputs, sat \in SatelliteInputs,
       date \in RootDateInputs :
        \E accept \in SUBSET Range(root_patch_offsets(a[1], a[2], a[3])),
           db_fail \in {{}, {<<0, 0>>}, {<<0, 2>>}} :
            /\ in_transaction \in BOOLEAN
            /\ Call("add_tiles_from_array",
                    [NoArgs EXCEPT !.shape = <<a[1], a[2]>>,
                                   !.patch_size = a[3], !.accept = accept,
                                   !.sat = sat, !.date = date,
                                   !.db_fail = db_fail],
                    root_add_tiles_from_array(Cur, a[1], a[2], a[3], accept,
                                              sat, date, db_fail))

NextArrayTiles ==
    \/ RootAddTilesFromArray
    \/ RootSaveChanges
    \/ RootAbortChanges

SpecArrayTiles == Init /\ [][NextArrayTiles]_vars

\* C37: after add_tiles_from_array raises because the INSERT of some patch
\* failed, every .npy file written by that call is referenced by a tile row
\* of the catalog or has been deleted.
C37_NoPatchFileWithoutRow ==
    [][(/\ last'.op = "add_tiles_from_array"
        /\ last'.insert_failed) =>
           \A f \in last'.wrote \cap files' :
               \E r \in tile' : r.path = f]_vars

(***************************************************************************)
(* The stride grid and the array grid of one raster                        *)
(***************************************************************************)
\* arguments <<H, W, p>>, empty sides included
GridInputs ==
    ((0..MaxSide) \X (0..MaxSide) \X (1..MaxPatch)) \cup {<<100, 100, 32>>}

InitGrids ==
    /\ IdleRepository
    /\ last \in {PureInput(a) : a \in GridInputs}

\* the offsets save_raster_patches visits with stride = patch_size (the
\* default) and the offsets add_tiles_from_array / get_patch_indicies visit
PatchGrids ==
    /\ Len(last.args) = 3
    /\ PureCall("patch_grids", "none",
                <<patch_offsets(last.args[1], last.args[2], last.args[3],
                                last.args[3]),
                  root_patch_offsets(last.args[1], last.args[2],
                                     last.args[3])>>)

NextGrids ==
    \/ PatchGrids

SpecGrids == InitGrids /\ [][NextGrids]_vars

\* C38: with stride equal to patch_size the stride grid of
\* save_raster_patches and the array grid of add_tiles_from_array /
\* get_patch_indicies are the same sequence of offsets, for every H, W >= 0
\* and p >= 1.
C38_SameGrid ==
    last.op = "patch_grids" => last.ret[1] = last.ret[2]

\* a raster whose height is no multiple of the patch size
C38_Witness ==
    /\ last.op = "patch_grids"
    /\ last.args = <<5, 4, 2>>
    /\ last.ret[1] = <<<<0, 0>>, <<0, 2>>, <<2, 0>>, <<2, 2>>>>
    /\ last.ret[2] = <<<<0, 0>>, <<0, 2>>, <<2, 0>>, <<2, 2>>>>

(***************************************************************************)
(* parse_date_origin for every kind of input                               *)
(***************************************************************************)
\* a datetime.date value that is no datetime.datetime
PyDate(y, m, d) == [type |-> "date", s |-> <<>>, ymd |-> <<y, m, d>>]

\* datetimes and strings as before, a plain date and None
ParseKindInputs == ParseInputs \cup {PyDate(2024, 12, 12), PyNone}

InitDateKinds ==
    /\ IdleRepository
    /\ last \in {PureInput(<<date_origin>>) : date_origin \in ParseKindInputs}

NextDateKinds ==
    \/ ParseDateOrigin
    \/ RootParseDateOrigin

SpecDateKinds == InitDateKinds /\ [][NextDateKinds]_vars

\* C39: for every kind of input (datetime, string, anything else such as a
\* plain date or None) parse_date_origin returns a string of the form
\* YYYY-MM-DD or raises; it never returns a value of another type.
C39_StringOrRaise ==
    last.op \in {"parse_date_origin",
                 "tile_bank_repository.parse_date_origin"} =>
        \/ last.exc # "none"
        \/ /\ last.ret.type = "str"
           /\ Len(last.ret.s) = 10
           /\ HasDateShape(last.ret.s)

====
